---- MODULE Spec2Model ----
(***************************************************************************)
(* Streaming reconstruction engine of DeepSeekContentGenerator             *)
(* (packages/core/src/core/deepseekContentGenerator.ts): the async         *)
(* generator returned by generateContentStream, its transport reader, its  *)
(* line buffer and its tool-call accumulator.                              *)
(*                                                                         *)
(* Text is a sequence of characters, a transport read a sequence of bytes. *)
(* A byte/character is a short string: "da" and "ta:" are the two halves   *)
(* of the 'data:' prefix, "SP" a blank, "CR"/"LF" the line terminators,    *)
(* "C3" "A9" the two UTF-8 bytes of the character "e'", and every other    *)
(* one stands for a whole payload text.                                    *)
(***************************************************************************)
EXTENDS Integers, Sequences, FiniteSets, TLC

\* ------------------------------------------------------------------ bounds
\* Number of SSE lines the backend sends in one response.
MaxLines == 2

\* ------------------------------------------------- the backend's response
NoIndex == -1

\* A tool-call delta entry of a stream frame ("" = field absent).
Delta(index, id, name, arguments) ==
  [index |-> index, id |-> id, name |-> name, arguments |-> arguments]

\* A parsed stream frame: choices[0].delta.content, choices[0].delta.tool_calls
\* and choices[0].finish_reason (<<>> / "" = absent, null or empty).
Frame(content, tool_calls, finish_reason) ==
  [content |-> content, tool_calls |-> tool_calls, finish_reason |-> finish_reason]

\* The payload texts that are valid JSON and the frame each one parses to.
FrameOf ==
  [ T1  |-> Frame(<<"h">>, <<>>, ""),
    A0  |-> Frame(<<>>, <<Delta(0, "ida", "f", <<"{", "a1">>)>>, ""),
    C0  |-> Frame(<<>>, <<Delta(NoIndex, "idb", "g", <<"}">>)>>, ""),
    A1  |-> Frame(<<>>, <<Delta(1, "", "", <<"{">>)>>, ""),
    TF  |-> Frame(<<"i">>,
                  <<Delta(1, "", "g", <<"}">>), Delta(0, "", "", <<"}">>)>>,
                  "tool_calls"),
    FIN |-> Frame(<<>>, <<>>, "stop"),
    N7  |-> Frame(<<>>, <<Delta(0, "", "", <<"7">>)>>, "") ]

\* The kinds of line the backend sends, each with its bytes and terminator.
LineBytes ==
  [ blank |-> <<"LF">>,
    done  |-> <<"da", "ta:", "SP", "[DONE]", "LF">>,
    bad   |-> <<"da", "ta:", "C3", "A9", "LF">>,
    t1    |-> <<"da", "ta:", "SP", "T1", "CR", "LF">>,
    a0    |-> <<"da", "ta:", "A0", "LF">>,
    c0    |-> <<"SP", "da", "ta:", "C0", "SP", "LF">>,
    a1    |-> <<"da", "ta:", "A1", "LF">>,
    tf    |-> <<"da", "ta:", "TF", "CR", "LF">>,
    fin   |-> <<"da", "ta:", "FIN", "LF">>,
    n7    |-> <<"da", "ta:", "N7", "LF">> ]

LineKinds == DOMAIN LineBytes

\* The frame a line of the given kind carries (valid data lines only).
KindFrame ==
  [ t1 |-> FrameOf.T1, a0 |-> FrameOf.A0, c0 |-> FrameOf.C0,
    a1 |-> FrameOf.A1, tf |-> FrameOf.TF, fin |-> FrameOf.FIN,
    n7 |-> FrameOf.N7 ]

ValidKinds == DOMAIN KindFrame

RECURSIVE Encode(_)
Encode(kinds) ==
  IF kinds = <<>> THEN <<>> ELSE LineBytes[Head(kinds)] \o Encode(Tail(kinds))

\* The response body: the lines, the last one without its terminator when
\* the backend closes the connection without sending it.
Body(kinds, terminated) ==
  LET b == Encode(kinds)
  IN  IF terminated \/ b = <<>> THEN b ELSE SubSeq(b, 1, Len(b) - 1)

\* Longer responses of a tool-calling turn, beside every short one.
Scenarios ==
  { <<"a0", "c0", "done", "t1">>,
    <<"a1", "a0", "fin", "done">>,
    <<"t1", "bad", "tf", "done">> }

Streams == UNION { [1..n -> LineKinds] : n \in 0..MaxLines } \cup Scenarios


\* ------------------------------------------------------------- pure parts
\* decoder.decode(value, {stream: true}): UTF-8 bytes to characters; an
\* incomplete multi-byte character is kept in the decoder for the next call.
\* Returns <<text, pending bytes>>.
RECURSIVE DecodeFrom(_, _, _)
DecodeFrom(pending, bytes, text) ==
  IF bytes = <<>> THEN <<text, pending>>
  ELSE LET b == Head(bytes) IN
       IF pending = <<"C3">>
       THEN IF b = "A9"
            THEN DecodeFrom(<<>>, Tail(bytes), Append(text, "e'"))
            ELSE DecodeFrom(<<>>, bytes, Append(text, "FFFD"))
       ELSE IF b = "C3" THEN DecodeFrom(<<"C3">>, Tail(bytes), text)
       ELSE IF b = "A9" THEN DecodeFrom(<<>>, Tail(bytes), Append(text, "FFFD"))
       ELSE DecodeFrom(<<>>, Tail(bytes), Append(text, b))

Decode(pending, bytes) == DecodeFrom(pending, bytes, <<>>)

\* buffer.split(/\r?\n/): the pieces between line terminators, the last piece
\* being what follows the last terminator (possibly empty).
RECURSIVE SplitFrom(_, _)
SplitFrom(text, cur) ==
  IF text = <<>> THEN <<cur>>
  ELSE IF Head(text) = "LF"
       THEN LET line == IF cur # <<>> /\ cur[Len(cur)] = "CR"
                        THEN SubSeq(cur, 1, Len(cur) - 1) ELSE cur
            IN  <<line>> \o SplitFrom(Tail(text), <<>>)
       ELSE SplitFrom(Tail(text), Append(cur, Head(text)))

SplitLines(text) == SplitFrom(text, <<>>)

\* The pieces dispatched, the partial trailing line among them.
CompleteLinesAndPartial(ls) == ls

\* buffer = lines.pop() ?? '': the pieces left in lines, all but the last ...
CompleteLines(ls) == SubSeq(ls, 1, Len(ls) - 1)

\* ... and the last piece, the partial trailing line kept in the buffer.
PartialLine(ls) == ls[Len(ls)]

\* String.prototype.trim
WhiteSpace == {"SP", "CR", "LF"}

RECURSIVE TrimStart(_)
TrimStart(s) ==
  IF s # <<>> /\ Head(s) \in WhiteSpace THEN TrimStart(Tail(s)) ELSE s

RECURSIVE TrimEnd(_)
TrimEnd(s) ==
  IF s # <<>> /\ s[Len(s)] \in WhiteSpace
  THEN TrimEnd(SubSeq(s, 1, Len(s) - 1)) ELSE s

Trim(s) == TrimEnd(TrimStart(s))

\* line.startsWith('data:') and line.slice('data:'.length).trim()
StartsWithData(line) == Len(line) >= 2 /\ line[1] = "da" /\ line[2] = "ta:"

DataOf(line) == Trim(SubSeq(line, 3, Len(line)))

\* JSON.parse(data) of a frame payload: throws unless the text is valid JSON.
JsonParses(data) == Len(data) = 1 /\ data[1] \in DOMAIN FrameOf

JsonParse(data) == FrameOf[data[1]]

\* LineClass without the comparison with the sentinel.
LineClassNoSentinel(rawLine) ==
  LET line == Trim(rawLine) IN
  IF ~StartsWithData(line) THEN "skip"
  ELSE IF DataOf(line) = <<>> THEN "skip"
  ELSE IF ~JsonParses(DataOf(line)) THEN "malformed"
  ELSE "frame"

\* LineClass ending the sequence on a payload that fails to parse.
LineClassParseFatal(rawLine) ==
  LET line == Trim(rawLine) IN
  IF ~StartsWithData(line) THEN "skip"
  ELSE IF DataOf(line) = <<>> THEN "skip"
  ELSE IF DataOf(line) = <<"[DONE]">> THEN "done"
  ELSE IF ~JsonParses(DataOf(line)) THEN "done"
  ELSE "frame"

\* What the dispatch loop does with one raw line.
LineClass(rawLine) ==
  LET line == Trim(rawLine) IN
  IF ~StartsWithData(line) THEN "skip"
  ELSE IF DataOf(line) = <<>> THEN "skip"
  ELSE IF DataOf(line) = <<"[DONE]">> THEN "done"
  ELSE IF ~JsonParses(DataOf(line)) THEN "malformed"
  ELSE "frame"

\* JSON.parse of a tool call's arguments text: throws unless it is valid JSON.
ArgsParse(arguments) ==
  arguments \in { <<"{", "}">>, <<"{", "a1", "}">>, <<"7">> }

\* `call_${idx}`
CallId(idx) == <<"call_0", "call_1", "call_2">>[idx + 1]

\* The Map toolCallsByIndex as the sequence of its entries in insertion
\* order; Map.set of a present key keeps the key's position.
MapHas(map, idx) == \E i \in 1..Len(map) : map[i].idx = idx

MapGet(map, idx) == map[CHOOSE i \in 1..Len(map) : map[i].idx = idx]

MapSet(map, idx, v) ==
  LET e == [idx |-> idx, id |-> v.id, name |-> v.name, arguments |-> v.arguments]
  IN  IF MapHas(map, idx)
      THEN [i \in 1..Len(map) |-> IF map[i].idx = idx THEN e ELSE map[i]]
      ELSE Append(map, e)

\* MergeToolCall replacing the arguments instead of appending to them.
MergeToolCallReplacing(map, tc) ==
  LET idx == IF tc.index = NoIndex THEN 0 ELSE tc.index
      has == MapHas(map, idx)
      id == IF tc.id # "" THEN tc.id
            ELSE IF has /\ MapGet(map, idx).id # "" THEN MapGet(map, idx).id
            ELSE CallId(idx)
      name == IF tc.name # "" THEN tc.name
              ELSE IF has /\ MapGet(map, idx).name # "" THEN MapGet(map, idx).name
              ELSE "tool"
  IN  MapSet(map, idx, [id |-> id, name |-> name, arguments |-> tc.arguments])

\* One tool-call delta merged into the accumulator.
MergeToolCall(map, tc) ==
  LET idx == IF tc.index = NoIndex THEN 0 ELSE tc.index
      has == MapHas(map, idx)
      id == IF tc.id # "" THEN tc.id
            ELSE IF has /\ MapGet(map, idx).id # "" THEN MapGet(map, idx).id
            ELSE CallId(idx)
      name == IF tc.name # "" THEN tc.name
              ELSE IF has /\ MapGet(map, idx).name # "" THEN MapGet(map, idx).name
              ELSE "tool"
      args == (IF has THEN MapGet(map, idx).arguments ELSE <<>>) \o tc.arguments
  IN  MapSet(map, idx, [id |-> id, name |-> name, arguments |-> args])

RECURSIVE MergeToolCalls(_, _)
MergeToolCalls(map, tcs) ==
  IF tcs = <<>> THEN map
  ELSE MergeToolCalls(MergeToolCall(map, Head(tcs)), Tail(tcs))

\* The entries left in insertion order.
SortByIndexMissing(entries) == entries

\* Array.from(map.entries()).sort(([a], [b]) => a - b)
RECURSIVE SortByIndex(_)
SortByIndex(entries) ==
  IF entries = <<>> THEN <<>>
  ELSE LET m == CHOOSE i \in 1..Len(entries) :
                  \A j \in 1..Len(entries) : entries[i].idx <= entries[j].idx
           rest == [k \in 1..(Len(entries) - 1) |->
                      IF k < m THEN entries[k] ELSE entries[k + 1]]
       IN  <<entries[m]>> \o SortByIndex(rest)

\* The content delta taken only from a frame without tool-call deltas.
ContentDeltaUnlessToolCalls(c) ==
  IF c.tool_calls # <<>> THEN <<>> ELSE c.content

\* delta?.content: the content delta of a frame, <<>> when it has none.
ContentDelta(c) == c.content

createGeminiStreamTextChunk(text) ==
  [role |-> "model", parts |-> << [text |-> text] >>]

FunctionCallPart(tc) ==
  [functionCall |->
     [id |-> tc.id, name |-> tc.name,
      args |-> IF tc.arguments = <<>> THEN [json |-> <<"{", "}">>]
               ELSE IF ArgsParse(tc.arguments) THEN [json |-> tc.arguments]
               ELSE [__raw |-> tc.arguments]]]

createGeminiStreamToolCallsChunk(toolCalls) ==
  [role |-> "model",
   parts |-> [i \in 1..Len(toolCalls) |-> FunctionCallPart(toolCalls[i])]]

\* flushToolCallsIfAny with the test of calls.length inverted.
flushToolCallsIfNone(map) ==
  LET calls == SortByIndex(map)
  IN  IF Len(calls) > 0 THEN <<>> ELSE <<createGeminiStreamToolCallsChunk(calls)>>

\* flushToolCallsIfAny without the test of calls.length.
flushToolCallsAlways(map) ==
  <<createGeminiStreamToolCallsChunk(SortByIndex(map))>>

\* flushToolCallsIfAny: the chunks it yields (none or one).
flushToolCallsIfAny(map) ==
  LET calls == SortByIndex(map)
  IN  IF Len(calls) > 0 THEN <<createGeminiStreamToolCallsChunk(calls)>> ELSE <<>>


\* ----------------------------------------------------- state of a facade call
\* One call of generateContent, generateContentStream, countTokens or
\* embedContent, up to the outcome of its HTTP request.
VARIABLES
  env,              \* process.env
  op,               \* the method called
  fpc,              \* "call" before the call, "fetch" while awaiting fetch, "end"
  httpRequests,     \* number of fetch calls issued
  keyReads,         \* number of calls of getDeepSeekApiKey
  fresult,          \* the outcome of the call: "none" while it has none
  fresponse,        \* the response generateContent returned
  sent              \* the JSON body of the request issued

fvars == <<env, op, fpc, httpRequests, keyReads, fresult, fresponse, sent>>

\* No response: generateContent has not returned.
NoResponse == [parts |-> <<>>, finishReason |-> "", totalTokenCount |-> -1]

\* An environment variable that is not set.
Unset == "<unset>"

\* No temperature field.
NoTemperature == [present |-> FALSE, value |-> ""]

\* No request was issued.
NoBody ==
  [model |-> <<>>, messages |-> <<>>, tools |-> [present |-> FALSE, list |-> <<>>],
   tool_choice |-> Unset, temperature |-> NoTemperature, stream |-> FALSE,
   user |-> Unset]

\* No facade call is modelled.
FacadeIdle ==
  /\ env = [GEMINI_CLI_PROVIDER |-> "deepseek", DEEPSEEK_API_KEY |-> "k",
            OPENAI_COMPAT_API_KEY |-> Unset, GEMINI_API_KEY |-> Unset,
            OPENAI_COMPAT_MODEL |-> Unset, DEEPSEEK_MODEL |-> Unset,
            OPENAI_COMPAT_TEMPERATURE |-> Unset]
  /\ sent = NoBody
  /\ op = "none"
  /\ fpc = "end"
  /\ httpRequests = 0
  /\ keyReads = 0
  /\ fresult = "none"
  /\ fresponse = NoResponse

\* ------------------------------------------------- the request translator
VARIABLES
  request,          \* the GenerateContentParameters being translated
  tpc,              \* "call" before geminiRequestToDeepSeekMessages, "end" after
  messages,         \* the messages it returned
  tools             \* the tools it returned

tvars == <<request, tpc, messages, tools>>

\* request.config.systemInstruction: its shape, its text when a string,
\* its parts when a Content, a Part or a Part[].
SystemInstruction(shape, text, parts) ==
  [shape |-> shape, text |-> text, parts |-> parts]

\* The result without tools field.
NoTools == [present |-> FALSE, list |-> <<>>]

\* No translation in progress.
TranslatorIdle ==
  /\ request = [model |-> <<>>,
                systemInstruction |-> SystemInstruction("absent", <<>>, <<>>),
                isArray |-> TRUE, contents |-> <<>>,
                hasDeclarations |-> FALSE, functionDeclarations |-> <<>>]
  /\ tpc = "end"
  /\ messages = <<>>
  /\ tools = NoTools

\* ------------------------------------------- two streaming calls at once
VARIABLES
  inputs,           \* per call, the lines of its response (never changes)
  wires,            \* per call, the bytes of its response not yet read
  store,            \* the closure states: reader, decoder, map, done, buffer
  gens              \* per call, the generator: its position and its locals

pvars == <<inputs, wires, store, gens>>

\* No pair of calls in progress.
PairIdle ==
  /\ inputs = <<>>
  /\ wires = <<>>
  /\ store = <<>>
  /\ gens = <<>>

\* -------------------------------------------------------- the auth dialog
VARIABLES
  items,            \* the values of the options the dialog offers
  browserSuppressed,\* config.isBrowserLaunchSuppressed()
  selectedType,     \* settings: security.auth.selectedType
  authState,        \* the state last passed to setAuthState
  authError,        \* authError: "" when null
  authContext,      \* the requiresRestart of the last setAuthContext
  exiting,          \* exiting; "exited" once process.exit was called
  customDialog,     \* the dialog passed to uiActions.setCustomDialog
  providers,        \* settings: providers.openai_compatible was written
  awaiting,         \* the selections of the onSelect calls that await
                    \* clearCachedCredentialFile()
  lastSelection,    \* the last selection that passed validation
  nSelections       \* number of selections made

avars == <<items, browserSuppressed, selectedType, authState, authError,
           authContext, exiting, customDialog, providers, awaiting,
           lastSelection, nSelections>>

\* No auth dialog is shown.
AuthIdle ==
  /\ items = {}
  /\ browserSuppressed = FALSE
  /\ selectedType = "<unset>"
  /\ authState = "Unauthenticated"
  /\ authError = ""
  /\ authContext = FALSE
  /\ exiting = "no"
  /\ customDialog = "none"
  /\ providers = "none"
  /\ awaiting = <<>>
  /\ lastSelection = "none"
  /\ nSelections = 0

\* ------------------------------------- the OpenAI-compatible config dialog
VARIABLES
  dialogStep,        \* step
  dialogScope,       \* scope
  dialogBaseUrl,     \* baseUrl
  dialogDefaultModel,\* defaultModel
  dialogTemperature, \* temperature
  dialogError,       \* error: "" when null
  rendered,          \* the step and values of the last render, which the
                     \* handlers of the dialog close over
  completions,       \* the arguments of the onComplete calls, in order
  cancelled,         \* onCancel was called
  submitted,         \* the values passed to handleSubmitText, last one only
  nSubmits           \* number of handleSubmitText calls

dvars == <<dialogStep, dialogScope, dialogBaseUrl, dialogDefaultModel,
           dialogTemperature, dialogError, rendered, completions, cancelled,
           submitted, nSubmits>>

\* What a render of the dialog captures of its state.
RenderOf(st, sc, url, model) ==
  [step |-> st, scope |-> sc, baseUrl |-> url, defaultModel |-> model]

\* No config dialog is mounted.
DialogIdle ==
  /\ dialogStep = "scope"
  /\ dialogScope = "User"
  /\ dialogBaseUrl = <<>>
  /\ dialogDefaultModel = <<>>
  /\ dialogTemperature = "0.2"
  /\ dialogError = ""
  /\ rendered = RenderOf("scope", "User", <<>>, <<>>)
  /\ completions = <<>>
  /\ cancelled = FALSE
  /\ submitted = <<>>
  /\ nSubmits = 0

\* The variables of the other parts of the program, which a step of one part
\* leaves unchanged.
others == <<fvars, tvars, pvars, avars, dvars>>

\* ------------------------------------------------------------------ state
VARIABLES
  sse,              \* the lines of the backend's response (never changes)
  body,             \* the bytes of the backend's response (never changes)
  wire,             \* response bytes the transport has not delivered yet
  streamState,      \* res.body: "unopened", "readable", "closed", "errored"
  readerLocked,     \* res.body.getReader() was called and never released
  aborted,          \* the caller's abort signal has fired
  pending,          \* decoder: bytes of an incomplete character
  buffer,           \* buffer
  lines,            \* the lines of the current read still to dispatch
  toolCallsByIndex, \* toolCallsByIndex
  done,             \* done
  cur,              \* the frame being dispatched while suspended in it
  pc,               \* where the call stands
  demand,           \* the consumer's next() is pending
  out,              \* the chunks yielded so far
  result,           \* how the call ended: "none" while it has not
  nDispatched,      \* number of lines taken by the dispatch loop
  flushed           \* per tool-calls chunk yielded, the map indices flushed

vars == <<others, sse, body, wire, streamState, readerLocked, aborted, pending, buffer, lines,
          toolCallsByIndex, done, cur, pc, demand, out, result, nDispatched,
          flushed>>

NoFrame == Frame(<<>>, <<>>, "")

\* A streaming call about to fetch the response with the given lines and bytes.
StreamInit(kinds, bytes) ==
  /\ sse = kinds
  /\ body = bytes
  /\ wire = bytes
  /\ streamState = "unopened"
  /\ readerLocked = FALSE
  /\ aborted = FALSE
  /\ pending = <<>>
  /\ buffer = <<>>
  /\ lines = <<>>
  /\ toolCallsByIndex = <<>>
  /\ done = FALSE
  /\ cur = NoFrame
  /\ pc = "fetch"
  /\ demand = FALSE
  /\ out = <<>>
  /\ result = "none"
  /\ nDispatched = 0
  /\ flushed = <<>>

Init ==
  /\ \E kinds \in Streams, terminated \in BOOLEAN :
       StreamInit(kinds, Body(kinds, terminated))
  /\ FacadeIdle
  /\ TranslatorIdle
  /\ PairIdle
  /\ AuthIdle
  /\ DialogIdle

\* The while loop entered again although lines are left.
NextPcLeavingLines(rest) == "loop"

\* The top of the for loop, or of the while loop when no line is left.
NextPc(rest) == IF rest = <<>> THEN "loop" ELSE "lines"

\* The indices of the entries a flush of the map emits, in emission order.
FlushIdx(map) == [i \in 1..Len(map) |-> SortByIndex(map)[i].idx]

\* yield chunk: the pending next() resolves and the generator suspends.
Yield(chunk, at) ==
  /\ out' = Append(out, chunk)
  /\ demand' = FALSE
  /\ pc' = at

\* yield* flushToolCallsIfAny() followed by the generator's return.
FlushAndReturn(at) ==
  LET f == flushToolCallsIfAny(toolCallsByIndex) IN
  IF f # <<>>
  THEN /\ Yield(f[1], at)
       /\ flushed' = Append(flushed, FlushIdx(toolCallsByIndex))
       /\ UNCHANGED result
  ELSE /\ result' = "completed"
       /\ pc' = "end"
       /\ demand' = FALSE
       /\ UNCHANGED <<out, flushed>>

Return ==
  /\ result' = "completed"
  /\ pc' = "end"
  /\ demand' = FALSE

\* The finish-reason flush performed before the frame's deltas are merged.
RestOfFrameFlushFirst(c, rest) ==
  LET map == MergeToolCalls(toolCallsByIndex, c.tool_calls)
      f == IF c.finish_reason # "" THEN flushToolCallsIfAny(toolCallsByIndex)
           ELSE <<>>
  IN  /\ toolCallsByIndex' = map
      /\ IF f # <<>>
         THEN /\ Yield(f[1], "afterFinish")
              /\ flushed' = Append(flushed, FlushIdx(toolCallsByIndex))
         ELSE /\ pc' = NextPc(rest)
              /\ UNCHANGED <<out, demand, flushed>>

\* The part of a frame's dispatch after its content delta: merge the frame's
\* tool-call deltas, then flush on a finish reason.
RestOfFrame(c, rest) ==
  LET map == MergeToolCalls(toolCallsByIndex, c.tool_calls)
      f == IF c.finish_reason # "" THEN flushToolCallsIfAny(map) ELSE <<>>
  IN  /\ toolCallsByIndex' = map
      /\ IF f # <<>>
         THEN /\ Yield(f[1], "afterFinish")
              /\ flushed' = Append(flushed, FlushIdx(map))
         ELSE /\ pc' = NextPc(rest)
              /\ UNCHANGED <<out, demand, flushed>>

\* ---------------------------------------------------------------- actions
\* await fetch(endpoint, {..., signal: abortSignal}), the res.ok test and
\* res.body.getReader().
FetchResolve ==
  /\ pc = "fetch"
  /\ IF aborted
     THEN /\ result' = "AbortError"
          /\ pc' = "end"
          /\ UNCHANGED <<streamState, readerLocked>>
     ELSE \E ok \in BOOLEAN :
            IF ok
            THEN /\ streamState' = "readable"
                 /\ readerLocked' = TRUE
                 /\ pc' = "loop"
                 /\ UNCHANGED result
            ELSE /\ result' = "HttpError"
                 /\ pc' = "end"
                 /\ UNCHANGED <<streamState, readerLocked>>
  /\ UNCHANGED <<others, sse, body, wire, aborted, pending, buffer, lines, toolCallsByIndex,
                 done, cur, demand, out, nDispatched, flushed>>

\* The caller's abort signal fires: fetch errors the response body.
Abort ==
  /\ result = "none"
  /\ ~aborted
  /\ aborted' = TRUE
  /\ streamState' = IF streamState = "readable" THEN "errored" ELSE streamState
  /\ UNCHANGED <<others, sse, body, wire, readerLocked, pending, buffer, lines,
                 toolCallsByIndex, done, cur, pc, demand, out, result,
                 nDispatched, flushed>>

\* The connection fails.
TransportError ==
  /\ result = "none"
  /\ streamState = "readable"
  /\ streamState' = "errored"
  /\ UNCHANGED <<others, sse, body, wire, readerLocked, aborted, pending, buffer, lines,
                 toolCallsByIndex, done, cur, pc, demand, out, result,
                 nDispatched, flushed>>

\* The consumer asks for the next chunk: gen.next().
ConsumerNext ==
  /\ pc \notin {"fetch", "end"}
  /\ ~demand
  /\ demand' = TRUE
  /\ UNCHANGED <<others, sse, body, wire, streamState, readerLocked, aborted, pending, buffer,
                 lines, toolCallsByIndex, done, cur, pc, out, result,
                 nDispatched, flushed>>

\* The consumer abandons the sequence: gen.return() on the suspended
\* generator, which has no finally block.
ConsumerReturn ==
  /\ pc \notin {"fetch", "end"}
  /\ ~demand
  /\ result' = "returned"
  /\ pc' = "end"
  /\ UNCHANGED <<others, sse, body, wire, streamState, readerLocked, aborted, pending, buffer,
                 lines, toolCallsByIndex, done, cur, demand, out, nDispatched,
                 flushed>>

\* while (!done): issue reader.read(), or leave the loop for the final flush.
LoopTop ==
  /\ pc = "loop"
  /\ demand
  /\ IF ~done
     THEN /\ pc' = "reading"
          /\ UNCHANGED <<demand, out, result, flushed>>
     ELSE FlushAndReturn("afterFinal")
  /\ UNCHANGED <<others, sse, body, wire, streamState, readerLocked, aborted, pending, buffer,
                 lines, toolCallsByIndex, done, cur, nDispatched>>

\* await reader.read() settles; the buffer is extended and split.
ReadResolve ==
  /\ pc = "reading"
  /\ \/ /\ streamState = "errored"
        /\ result' = IF aborted THEN "AbortError" ELSE "NetworkError"
        /\ pc' = "end"
        /\ demand' = FALSE
        /\ UNCHANGED <<wire, streamState, pending, buffer, lines, done>>
     \/ /\ streamState = "readable"
        /\ \E k \in 0..Len(wire) :
             LET d == Decode(pending, SubSeq(wire, 1, k))
                 ls == SplitLines(buffer \o d[1])
             IN  /\ wire' = SubSeq(wire, k + 1, Len(wire))
                 /\ pending' = d[2]
                 /\ lines' = CompleteLines(ls)
                 /\ buffer' = PartialLine(ls)
                 /\ pc' = NextPc(lines')
        /\ done' = FALSE
        /\ UNCHANGED <<streamState, demand, result>>
     \/ /\ streamState = "readable"
        /\ wire = <<>>
        /\ streamState' = "closed"
        /\ done' = TRUE
        /\ LET ls == SplitLines(buffer)
           IN  /\ lines' = CompleteLines(ls)
               /\ buffer' = PartialLine(ls)
               /\ pc' = NextPc(lines')
        /\ UNCHANGED <<wire, pending, demand, result>>
  /\ UNCHANGED <<others, sse, body, readerLocked, aborted, toolCallsByIndex, cur, out,
                 nDispatched, flushed>>

\* One iteration of the for loop, up to its first yield.
DispatchLine ==
  /\ pc = "lines"
  /\ demand
  /\ lines # <<>>
  /\ lines' = Tail(lines)
  /\ nDispatched' = nDispatched + 1
  /\ LET cls == LineClass(Head(lines))
         c == JsonParse(DataOf(Trim(Head(lines))))
     IN  CASE cls \in {"skip", "malformed"} ->
                /\ pc' = NextPc(Tail(lines))
                /\ UNCHANGED <<toolCallsByIndex, cur, demand, out, result, flushed>>
           [] cls = "done" ->
                /\ FlushAndReturn("afterDone")
                /\ UNCHANGED <<toolCallsByIndex, cur>>
           [] cls = "frame" /\ ContentDelta(c) # <<>> ->
                /\ Yield(createGeminiStreamTextChunk(ContentDelta(c)), "afterText")
                /\ cur' = c
                /\ UNCHANGED <<toolCallsByIndex, result, flushed>>
           [] cls = "frame" /\ ContentDelta(c) = <<>> ->
                /\ RestOfFrame(c, Tail(lines))
                /\ UNCHANGED <<cur, result>>
  /\ UNCHANGED <<others, sse, body, wire, streamState, readerLocked, aborted, pending, buffer,
                 done>>

\* The generator resumes after the text chunk of a frame.
ResumeAfterText ==
  /\ pc = "afterText"
  /\ demand
  /\ RestOfFrame(cur, lines)
  /\ cur' = NoFrame
  /\ UNCHANGED <<others, sse, body, wire, streamState, readerLocked, aborted, pending, buffer,
                 lines, done, result, nDispatched>>

\* The generator resumes after the flush of a finish reason.
ResumeAfterFinish ==
  /\ pc = "afterFinish"
  /\ demand
  /\ pc' = NextPc(lines)
  /\ UNCHANGED <<others, sse, body, wire, streamState, readerLocked, aborted, pending, buffer,
                 lines, toolCallsByIndex, done, cur, demand, out, result,
                 nDispatched, flushed>>

\* The generator resumes after the flush of the sentinel or of the end of the
\* stream, and returns.
ResumeAndReturn ==
  /\ pc \in {"afterDone", "afterFinal"}
  /\ demand
  /\ Return
  /\ UNCHANGED <<others, sse, body, wire, streamState, readerLocked, aborted, pending, buffer,
                 lines, toolCallsByIndex, done, cur, out, nDispatched, flushed>>

Next ==
  \/ FetchResolve
  \/ Abort
  \/ TransportError
  \/ ConsumerNext
  \/ ConsumerReturn
  \/ LoopTop
  \/ ReadResolve
  \/ DispatchLine
  \/ ResumeAfterText
  \/ ResumeAfterFinish
  \/ ResumeAndReturn

Spec == Init /\ [][Next]_vars

TypeOK ==
  /\ pc \in {"fetch", "loop", "reading", "lines", "afterText", "afterFinish",
             "afterDone", "afterFinal", "end"}
  /\ result \in {"none", "completed", "returned", "AbortError", "NetworkError",
                 "HttpError"}
  /\ (pc = "end") = (result # "none")
  /\ nDispatched <= Len(sse)


\* ------------------------------------------------- reference definitions
\* What the response says, read off the lines the backend sent.

\* The non-empty content deltas of the valid frames before the sentinel.
RECURSIVE ExpectedTexts(_)
ExpectedTexts(kinds) ==
  IF kinds = <<>> \/ Head(kinds) = "done" THEN <<>>
  ELSE (IF Head(kinds) \in ValidKinds /\ KindFrame[Head(kinds)].content # <<>>
        THEN <<KindFrame[Head(kinds)].content>> ELSE <<>>)
       \o ExpectedTexts(Tail(kinds))

\* The tool-call deltas of the valid frames before the sentinel, in order.
RECURSIVE ExpectedDeltas(_)
ExpectedDeltas(kinds) ==
  IF kinds = <<>> \/ Head(kinds) = "done" THEN <<>>
  ELSE (IF Head(kinds) \in ValidKinds THEN KindFrame[Head(kinds)].tool_calls
        ELSE <<>>)
       \o ExpectedDeltas(Tail(kinds))

DeltaIndex(tc) == IF tc.index = NoIndex THEN 0 ELSE tc.index

\* The argument fragments delivered for one index, concatenated in order.
RECURSIVE FragmentsOf(_, _)
FragmentsOf(tcs, idx) ==
  IF tcs = <<>> THEN <<>>
  ELSE (IF DeltaIndex(Head(tcs)) = idx THEN Head(tcs).arguments ELSE <<>>)
       \o FragmentsOf(Tail(tcs), idx)

\* The lines whose tool-call deltas have been merged so far: all the lines
\* taken, but the last one while the generator is suspended at (or was
\* abandoned at) the yield of its text chunk.
Merged == SubSeq(sse, 1, IF cur # NoFrame THEN nDispatched - 1 ELSE nDispatched)

Dispatched == SubSeq(sse, 1, nDispatched)

IsTextChunk(c) == Len(c.parts) = 1 /\ "text" \in DOMAIN c.parts[1]

IsToolCallsChunk(c) == ~IsTextChunk(c)

TextsOf(chunks) ==
  LET t == SelectSeq(chunks, IsTextChunk)
  IN  [i \in 1..Len(t) |-> t[i].parts[1].text]

ToolCallsChunks(chunks) == SelectSeq(chunks, IsToolCallsChunk)

Range(f) == { f[i] : i \in DOMAIN f }

\* The text of a function-call part's args.
ArgsText(args) == IF "json" \in DOMAIN args THEN args.json ELSE args.__raw

\* The accumulator index of an id of the responses above.
IdIndex(id) == IF id = "call_1" THEN 1 ELSE 0

\* The generator has just yielded a tool-calls chunk.
JustFlushed == pc \in {"afterFinish", "afterDone", "afterFinal"}

\* The dispatch loop has taken the sentinel line.
SentinelSeen == nDispatched > 0 /\ sse[nDispatched] = "done"

\* The dispatch loop takes a line of the given kind in this step.
Takes(kind) ==
  /\ nDispatched < Len(sse)
  /\ sse[nDispatched + 1] = kind
  /\ nDispatched' = nDispatched + 1


\* ----------------------------------------------------------------- claims

\* C1: over a whole streaming call every accumulated tool call is emitted in
\* exactly one tool-calls chunk: the entries flushed at a finish signal are
\* not emitted again by the flush of the sentinel or of the end of the
\* transport (no map index occurs in two of the chunks yielded).
C1_ToolCallFlushedOnce ==
  \A i, j \in 1..Len(flushed) :
    i < j => Range(flushed[i]) \cap Range(flushed[j]) = {}

\* C2: once an entry of the accumulator holds an id or a name that a delta
\* supplied, no later delta for the same index changes it.
C2_IdNameNeverOverwritten ==
  [][\A i \in 1..Len(toolCallsByIndex) : \A j \in 1..Len(toolCallsByIndex') :
       LET e == toolCallsByIndex[i]
           n == toolCallsByIndex'[j]
       IN  e.idx = n.idx =>
             /\ (e.id # CallId(e.idx) => n.id = e.id)
             /\ (e.name # "tool" => n.name = e.name)]_vars

\* C3: the arguments text accumulated for an index is the concatenation, in
\* arrival order, of every argument fragment delivered for that index so far
\* (a delta without index counting as index 0), in the accumulator at all
\* times and in the parts of every tool-calls chunk when it is flushed.
C3_ArgumentsConcatenated ==
  /\ \A i \in 1..Len(toolCallsByIndex) :
       toolCallsByIndex[i].arguments =
         FragmentsOf(ExpectedDeltas(Merged), toolCallsByIndex[i].idx)
  /\ { DeltaIndex(tc) : tc \in Range(ExpectedDeltas(Merged)) } =
       { toolCallsByIndex[i].idx : i \in 1..Len(toolCallsByIndex) }
  /\ JustFlushed =>
       LET parts == out[Len(out)].parts
           idxs == flushed[Len(flushed)]
       IN  /\ Len(parts) = Len(idxs)
           /\ \A i \in 1..Len(parts) :
                LET exp == FragmentsOf(ExpectedDeltas(Merged), idxs[i])
                IN  IF exp = <<>>
                    THEN parts[i].functionCall.args = [json |-> <<"{", "}">>]
                    ELSE ArgsText(parts[i].functionCall.args) = exp

\* The fragments '{"a":1' and '}' of index 0 have been flushed as one tool
\* call with arguments '{"a":1}'.
C3_Witness ==
  /\ JustFlushed
  /\ Len(out[Len(out)].parts) = 1
  /\ out[Len(out)].parts[1].functionCall.args = [json |-> <<"{", "a1", "}">>]
  /\ Len(ExpectedDeltas(Merged)) = 2

\* C4: every tool-calls chunk lists its parts in strictly ascending
\* accumulator index order, whatever order the deltas arrived in.
C4_FlushAscending ==
  \A k \in 1..Len(out) :
    IsToolCallsChunk(out[k]) =>
      \A i, j \in 1..Len(out[k].parts) :
        i < j => IdIndex(out[k].parts[i].functionCall.id)
                   < IdIndex(out[k].parts[j].functionCall.id)

\* Deltas arrived for index 1 and then for index 0, and both were flushed.
C4_Witness ==
  /\ JustFlushed
  /\ Len(toolCallsByIndex) = 2
  /\ toolCallsByIndex[1].idx = 1
  /\ toolCallsByIndex[2].idx = 0
  /\ Len(out[Len(out)].parts) = 2

\* C5: no tool-calls chunk with zero parts is ever emitted, and while no
\* tool-call delta has been dispatched no tool-calls chunk is emitted at all.
C5_NoEmptyToolCallsChunk ==
  /\ \A k \in 1..Len(out) : Len(out[k].parts) >= 1
  /\ Len(ToolCallsChunks(out)) = Len(flushed)
  /\ ExpectedDeltas(Merged) = <<>> => ToolCallsChunks(out) = <<>>

\* A stream without tool-call deltas has completed at its sentinel, after a
\* text chunk, with no tool-calls chunk.
C5_Witness ==
  /\ SentinelSeen
  /\ result = "completed"
  /\ ExpectedDeltas(Dispatched) = <<>>
  /\ out # <<>>
  /\ ToolCallsChunks(out) = <<>>


\* C6: once the caller's abort signal has fired the sequence yields no
\* further chunk and does not complete normally.
C6_NoChunkAfterAbort ==
  [][aborted => (out' = out /\ result' # "completed")]_vars

\* C7: on every exit path the transport read handle has been released, or
\* its stream has ended or been cancelled, once the sequence is finished.
C7_ReaderReleasedAtEnd ==
  pc = "end" => ~(readerLocked /\ streamState = "readable")

\* C8: when the sentinel line is dispatched the pending tool calls are
\* flushed in one chunk and the sequence then completes; after the sentinel
\* no chunk is emitted, no line is dispatched and no read is issued.
C8_SentinelEnds ==
  [][/\ (pc = "lines" /\ Takes("done")) =>
          IF toolCallsByIndex = <<>>
          THEN out' = out /\ result' = "completed"
          ELSE /\ pc' = "afterDone"
               /\ Len(out') = Len(out) + 1
               /\ SubSeq(out', 1, Len(out)) = out
               /\ IsToolCallsChunk(out'[Len(out')])
               /\ Len(out'[Len(out')].parts) = Len(toolCallsByIndex)
     /\ (SentinelSeen /\ pc = "afterDone") =>
          /\ out' = out
          /\ pc' \in {"afterDone", "end"}
          /\ result' \in {"none", "completed", "returned"}
          /\ (demand /\ pc' = "end") => result' = "completed"
     /\ SentinelSeen =>
          /\ nDispatched' = nDispatched
          /\ wire' = wire
          /\ lines' = lines
          /\ pc' # "reading"]_vars

\* The pending tool calls were flushed at the sentinel and the sequence has
\* completed, leaving a later line of the same read undispatched.
C8_Witness ==
  /\ SentinelSeen
  /\ result = "completed"
  /\ flushed # <<>>
  /\ lines # <<>>
  /\ IsToolCallsChunk(out[Len(out)])

\* C9: a data line whose payload is not the sentinel and is not valid JSON is
\* skipped: no chunk is emitted, the accumulator is unchanged and the
\* sequence neither ends nor fails, so that the lines after it are dispatched
\* from the state the lines before it left.
C9_MalformedSkipped ==
  [][(pc = "lines" /\ Takes("bad")) =>
       /\ out' = out
       /\ toolCallsByIndex' = toolCallsByIndex
       /\ flushed' = flushed
       /\ result' = "none"
       /\ lines' = Tail(lines)
       /\ pc' = NextPc(lines')
       /\ <<buffer, done, demand, cur>>' = <<buffer, done, demand, cur>>]_vars

\* A valid frame dispatched after a malformed one has produced its chunk.
C9_Witness ==
  /\ nDispatched >= 2
  /\ sse[nDispatched - 1] = "bad"
  /\ sse[nDispatched] = "t1"
  /\ out # <<>>
  /\ out[Len(out)] = createGeminiStreamTextChunk(<<"h">>)

\* C10: the text chunks emitted are, one chunk of one part per delta and in
\* the same order, the non-empty content deltas of the valid frames
\* dispatched so far before the sentinel; a delta is emitted in the step that
\* dispatches its frame.
C10_TextChunksAreDeltas ==
  TextsOf(out) = ExpectedTexts(Dispatched)

\* Two frames with different content deltas have been dispatched.
C10_Witness ==
  /\ Len(TextsOf(out)) = 2
  /\ TextsOf(out)[1] # TextsOf(out)[2]
  /\ result = "completed"


\* The bytes the transport has delivered so far, and their lines had they
\* been delivered in a single read.
Delivered == SubSeq(body, 1, Len(body) - Len(wire))

DeliveredLines == SplitLines(Decode(<<>>, Delivered)[1])

\* The lines of the response that were sent with their terminator.
SentLines == IF body = Encode(sse) THEN sse ELSE SubSeq(sse, 1, Len(sse) - 1)

\* The chunks of a response read off its lines: those of each frame up to
\* the sentinel, and the flush of the sentinel or of the end of the lines.
RECURSIVE RefOut(_, _)
RefOut(kinds, map) ==
  IF kinds = <<>> \/ Head(kinds) = "done" THEN flushToolCallsIfAny(map)
  ELSE IF Head(kinds) \in ValidKinds
       THEN LET c == KindFrame[Head(kinds)]
                m == MergeToolCalls(map, c.tool_calls)
            IN  (IF c.content # <<>>
                 THEN <<createGeminiStreamTextChunk(c.content)>> ELSE <<>>)
                \o (IF c.finish_reason # "" THEN flushToolCallsIfAny(m) ELSE <<>>)
                \o RefOut(Tail(kinds), m)
       ELSE RefOut(Tail(kinds), map)

\* C11: the chunks of a fixed byte stream are the same for every partition
\* into reads: after any reads the lines left to dispatch, the partial line
\* in the buffer and the decoder's pending bytes are those of a single read
\* of the bytes delivered (a partial trailing line stays in the buffer, no
\* line is taken twice or in part), and a completed call has emitted the
\* chunks of the lines sent.
C11_PartitionIndependent ==
  /\ lines = SubSeq(DeliveredLines, nDispatched + 1, Len(DeliveredLines) - 1)
  /\ buffer = DeliveredLines[Len(DeliveredLines)]
  /\ pending = Decode(<<>>, Delivered)[2]
  /\ result = "completed" => out = RefOut(SentLines, <<>>)

\* A read ended inside the 'data:' prefix of a later line, after a chunk
\* was emitted for an earlier line.
C11_Witness ==
  /\ buffer = <<"da">>
  /\ nDispatched >= 1
  /\ out # <<>>
  /\ wire # <<>>

\* No frame of the lines carries a finish reason.
NoFinish(kinds) ==
  \A i \in 1..Len(kinds) :
    kinds[i] \in ValidKinds => KindFrame[kinds[i]].finish_reason = ""

\* C12: when the transport ends without sentinel and without finish-reason
\* frame after tool-call deltas were accumulated, the completed call has
\* emitted exactly one tool-calls chunk, as its last chunk, with one part per
\* accumulated index carrying the arguments text accumulated, complete or not.
C12_FinalFlushAtExhaustion ==
  (/\ result = "completed"
   /\ ~SentinelSeen
   /\ NoFinish(Dispatched)
   /\ ExpectedDeltas(Dispatched) # <<>>) =>
    /\ Len(flushed) = 1
    /\ Len(ToolCallsChunks(out)) = 1
    /\ IsToolCallsChunk(out[Len(out)])
    /\ Range(flushed[1]) = { DeltaIndex(tc) : tc \in Range(ExpectedDeltas(Dispatched)) }
    /\ Len(out[Len(out)].parts) = Len(flushed[1])
    /\ \A i \in 1..Len(flushed[1]) :
         LET exp == FragmentsOf(ExpectedDeltas(Dispatched), flushed[1][i])
             args == out[Len(out)].parts[i].functionCall.args
         IN  IF exp = <<>> THEN args = [json |-> <<"{", "}">>]
             ELSE ArgsText(args) = exp

\* The transport ended after one delta with incomplete argument text, which
\* was flushed as it was, and the call has completed.
C12_Witness ==
  /\ result = "completed"
  /\ done
  /\ ~SentinelSeen
  /\ NoFinish(Dispatched)
  /\ Len(flushed) = 1
  /\ out[Len(out)].parts[1].functionCall.args = [__raw |-> <<"{", "a1">>]

\* C13: streaming is demand-driven: a chunk is produced, a line dispatched
\* and a read issued or settled only while a request of the consumer is
\* pending, one chunk per request; a read is issued only when every complete
\* line of the previous read has been dispatched, and settles before the
\* next one is issued.
C13_DemandDriven ==
  [][/\ out' # out =>
          /\ demand /\ ~demand'
          /\ Len(out') = Len(out) + 1
          /\ SubSeq(out', 1, Len(out)) = out
     /\ nDispatched' # nDispatched => demand
     /\ (pc' = "reading" /\ pc # "reading") => (demand /\ lines = <<>> /\ ~done)
     /\ wire' # wire => (pc = "reading" /\ demand /\ pc' # "reading")
     /\ pc = "reading" => (demand /\ lines = <<>>)]_vars

\* A further read was issued on the consumer's request after a chunk.
C13_Witness ==
  /\ pc = "reading"
  /\ demand
  /\ out # <<>>

\* The text is a JSON object.
JsonObjectText(t) == ArgsParse(t) /\ t[1] = "{"

\* C19: the args of every function-call part are a JSON object: the parsed
\* object, the empty object for an empty arguments string, and otherwise the
\* raw string under the key __raw.
C19_ArgsAreObjects ==
  \A k \in 1..Len(out) :
    IsToolCallsChunk(out[k]) =>
      \A i \in 1..Len(out[k].parts) :
        LET args == out[k].parts[i].functionCall.args
        IN  "__raw" \in DOMAIN args \/ JsonObjectText(args.json)


\* ------------------------------------------------------------ the facade
streamVars == <<sse, body, wire, streamState, readerLocked, aborted, pending,
                buffer, lines, toolCallsByIndex, done, cur, pc, demand, out,
                result, nDispatched, flushed>>

\* String.prototype.toLowerCase on the selector values of the model.
ToLower(v) ==
  CASE v = "DeepSeek" -> "deepseek"
    [] v = "OPENAI_COMPATIBLE" -> "openai_compatible"
    [] OTHER -> v

\* A value of process.env that is set and not empty.
Truthy(v) == v \notin {Unset, ""}

\* ------------------------------------------------- the request translator
MaxTurns == 2

\* A Part: kind "text" has the string text; the other kinds have no text
\* and carry their data in text for JSON.stringify. A functionResponse has
\* an id and a name (Unset when absent), a response that is absent, an
\* object with a string output (in text) or another object, and the draw
\* of Math.random made for it when its id is absent.
Part(kind, text, id, name, response, random) ==
  [kind |-> kind, text |-> text, id |-> id, name |-> name,
   response |-> response, random |-> random]

TextPart(text) == Part("text", text, Unset, Unset, "absent", "")

DataPart(kind, data) == Part(kind, data, Unset, Unset, "absent", "")

FunctionResponsePart(id, name, response, text, random) ==
  Part("functionResponse", text, id, name, response, random)

\* An element of request.contents; role Unset for a value without role.
Content(role, parts) == [role |-> role, parts |-> parts]

\* JSON.stringify of a Part without text.
JsonStringifyPart(p) == <<"{", p.kind>> \o p.text \o <<"}">>

\* JSON.stringify(fr.response ?? {})
JsonStringifyPayload(p) ==
  IF p.response = "absent" THEN <<"{", "}">>
  ELSE <<"{", p.response>> \o p.text \o <<"}">>

partToText(p) == IF p.kind = "text" THEN p.text ELSE JsonStringifyPart(p)

RECURSIVE contentPartsToText(_)
contentPartsToText(parts) ==
  IF parts = <<>> THEN <<>>
  ELSE partToText(Head(parts)) \o contentPartsToText(Tail(parts))

\* null, or a text.
NullText == [null |-> TRUE, text |-> <<>>]

TextOf(text) == [null |-> FALSE, text |-> text]

\* normalizeSystemInstruction without the Part and Part[] shapes.
normalizeSystemInstructionOfContent(si) ==
  IF si.shape = "absent" \/ (si.shape = "string" /\ si.text = <<>>) THEN NullText
  ELSE IF si.shape = "string" THEN TextOf(si.text)
  ELSE IF si.shape = "content" THEN TextOf(contentPartsToText(si.parts))
  ELSE NullText

normalizeSystemInstruction(si) ==
  IF si.shape = "absent" \/ (si.shape = "string" /\ si.text = <<>>) THEN NullText
  ELSE IF si.shape = "string" THEN TextOf(si.text)
  ELSE IF si.shape = "content" THEN TextOf(contentPartsToText(si.parts))
  ELSE IF si.shape = "part" /\ si.parts[1].kind = "text"
       THEN TextOf(partToText(si.parts[1]))
  ELSE IF si.shape = "partArray" THEN TextOf(contentPartsToText(si.parts))
  ELSE NullText

\* A declaration: name Unset or "" when it has none.
Declaration(name, description, parameters) ==
  [name |-> name, description |-> description, parameters |-> parameters]

DefaultParameters == "{type:object,properties:{}}"

RECURSIVE ConvertDeclarations(_)
ConvertDeclarations(fds) ==
  IF fds = <<>> THEN <<>>
  ELSE LET fn == Head(fds) IN
       (IF ~Truthy(fn.name) THEN <<>>
        ELSE << [type |-> "function", name |-> fn.name,
                 description |-> fn.description,
                 parameters |-> IF Truthy(fn.parameters) THEN fn.parameters
                                ELSE DefaultParameters] >>)
       \o ConvertDeclarations(Tail(fds))

\* convertFunctionDeclarationsToDeepSeekTools returning the list even
\* when it is empty.
convertFunctionDeclarationsToDeepSeekToolsOrEmpty(has, fds) ==
  IF ~has \/ Len(fds) = 0 THEN NoTools
  ELSE [present |-> TRUE, list |-> ConvertDeclarations(fds)]

convertFunctionDeclarationsToDeepSeekTools(has, fds) ==
  IF ~has \/ Len(fds) = 0 THEN NoTools
  ELSE LET list == ConvertDeclarations(fds) IN
       IF Len(list) > 0 THEN [present |-> TRUE, list |-> list] ELSE NoTools

\* A message without tool_call_id field.
NoToolCallId == <<Unset>>

Message(role, content, tool_call_id) ==
  [role |-> role, content |-> content, tool_call_id |-> tool_call_id]

\* messages.unshift(m) in the place of messages.push(m).
Unshift(ms, m) == <<m>> \o ms

\* messages.push(m)
Push(ms, m) == Append(ms, m)

isContent(value) == value.role # Unset

IsFunctionResponse(p) == p.kind = "functionResponse"

\* The tool message with the payload always serialized.
ToolMessageSerialized(fr) ==
  Message("tool", JsonStringifyPayload(fr),
          IF fr.id # Unset THEN <<fr.id>>
          ELSE <<IF fr.name # Unset THEN fr.name ELSE "tool", "_", fr.random>>)

\* The tool message of a function-response part.
ToolMessage(fr) ==
  Message("tool",
          IF fr.response = "output" THEN fr.text ELSE JsonStringifyPayload(fr),
          IF fr.id # Unset THEN <<fr.id>>
          ELSE <<IF fr.name # Unset THEN fr.name ELSE "tool", "_", fr.random>>)

RECURSIVE PushToolMessages(_, _)
PushToolMessages(frs, ms) ==
  IF frs = <<>> THEN ms
  ELSE PushToolMessages(Tail(frs), Push(ms, ToolMessage(Head(frs))))

\* One pass of the loop over normalizedContents.
TranslateContent(content, ms) ==
  IF content.role = "user"
  THEN LET functionResponses == SelectSeq(content.parts, IsFunctionResponse) IN
       IF Len(functionResponses) > 0
       THEN PushToolMessages(functionResponses, ms)
       ELSE Push(ms, Message("user", contentPartsToText(content.parts), NoToolCallId))
  ELSE IF content.role = "model"
  THEN LET text == contentPartsToText(content.parts) IN
       IF text # <<>> THEN Push(ms, Message("assistant", text, NoToolCallId))
       ELSE ms
  ELSE Push(ms, Message("user", contentPartsToText(content.parts), NoToolCallId))

RECURSIVE TranslateContents(_, _)
TranslateContents(contents, ms) ==
  IF contents = <<>> THEN ms
  ELSE TranslateContents(Tail(contents), TranslateContent(Head(contents), ms))

\* normalizedContents without the case of a single Content.
normalizedContentsOfArray(req) ==
  IF req.isArray THEN SelectSeq(req.contents, isContent) ELSE <<>>

normalizedContents(req) ==
  IF req.isArray THEN SelectSeq(req.contents, isContent)
  ELSE IF Len(req.contents) = 1 /\ isContent(req.contents[1]) THEN req.contents
  ELSE <<>>

geminiRequestToDeepSeekMessages(req) ==
  LET systemInstructionText == normalizeSystemInstruction(req.systemInstruction)
      start == IF ~systemInstructionText.null /\ systemInstructionText.text # <<>>
               THEN Push(<<>>, Message("system", systemInstructionText.text,
                                       NoToolCallId))
               ELSE <<>>
  IN  [messages |-> TranslateContents(normalizedContents(req), start),
       tools |-> convertFunctionDeclarationsToDeepSeekTools(
                   req.hasDeclarations, req.functionDeclarations)]

\* The text that marks the parts of the element at position i of contents.
PosTok(i) == <<"p1", "p2", "p3", "p4">>[i]

\* The elements examined at position i of request.contents.
TurnChoices(i) ==
  LET t == PosTok(i) IN
  { Content("user", <<TextPart(<<t>>)>>),
    Content("user", <<TextPart(<<t>>), TextPart(<<t, "x">>)>>),
    Content("user", <<TextPart(<<t>>), DataPart("inlineData", <<t>>)>>),
    Content("user", <<>>),
    Content("user", <<FunctionResponsePart("call_1", "f", "output", <<t, "42">>, ""),
                      TextPart(<<t, "x">>),
                      FunctionResponsePart(Unset, Unset, "result", <<t>>, "r1")>>),
    Content("user", <<FunctionResponsePart(Unset, "g", "absent", <<>>, "r2")>>),
    Content("model", <<TextPart(<<t>>)>>),
    Content("model", <<>>),
    Content("model", <<TextPart(<<>>)>>),
    Content("model", <<DataPart("functionCall", <<t>>)>>),
    Content("function", <<TextPart(<<t>>)>>),
    Content(Unset, <<TextPart(<<t>>)>>) }

\* The values of request.contents: arrays of up to MaxTurns elements.
ContentLists ==
  UNION { { cs \in [1..n -> UNION { TurnChoices(i) : i \in 1..n }] :
              \A i \in 1..n : cs[i] \in TurnChoices(i) } : n \in 0..MaxTurns }

SystemInstructions ==
  { SystemInstruction("absent", <<>>, <<>>),
    SystemInstruction("string", <<>>, <<>>),
    SystemInstruction("string", <<"s">>, <<>>),
    SystemInstruction("string", <<"s", "y">>, <<>>),
    SystemInstruction("content", <<>>, <<>>),
    SystemInstruction("content", <<>>, <<TextPart(<<"s">>)>>),
    SystemInstruction("content", <<>>, <<TextPart(<<"s">>), TextPart(<<"y">>)>>),
    SystemInstruction("content", <<>>, <<TextPart(<<>>)>>),
    SystemInstruction("part", <<>>, <<TextPart(<<"s">>)>>),
    SystemInstruction("part", <<>>, <<TextPart(<<>>)>>),
    SystemInstruction("part", <<>>, <<DataPart("inlineData", <<"s">>)>>),
    SystemInstruction("partArray", <<>>, <<>>),
    SystemInstruction("partArray", <<>>, <<TextPart(<<"s">>)>>),
    SystemInstruction("partArray", <<>>, <<TextPart(<<"s">>), TextPart(<<"y">>)>>),
    SystemInstruction("other", <<>>, <<>>) }

DeclarationLists ==
  { <<>>,
    <<Declaration(Unset, "d", Unset)>>,
    <<Declaration("f", "d", "schema")>>,
    <<Declaration("f", Unset, Unset), Declaration("", "d", "schema"),
      Declaration("g", "d", "schema")>> }

InitTranslate ==
  /\ \E si \in SystemInstructions, cs \in ContentLists, isArray \in BOOLEAN,
        has \in BOOLEAN, fds \in DeclarationLists :
       /\ ~isArray => Len(cs) <= 1
       /\ ~has => fds = <<>>
       /\ request = [model |-> <<>>, systemInstruction |-> si, isArray |-> isArray,
                     contents |-> cs, hasDeclarations |-> has,
                     functionDeclarations |-> fds]
  /\ tpc = "call"
  /\ messages = <<>>
  /\ tools = NoTools
  /\ FacadeIdle
  /\ StreamInit(<<>>, <<>>)
  /\ PairIdle
  /\ AuthIdle
  /\ DialogIdle

\* geminiRequestToDeepSeekMessages(request)
Translate ==
  /\ tpc = "call"
  /\ LET translated == geminiRequestToDeepSeekMessages(request) IN
       /\ messages' = translated.messages
       /\ tools' = translated.tools
  /\ tpc' = "end"
  /\ UNCHANGED <<request, fvars, pvars, avars, dvars, streamVars>>

NextTranslate == Translate

SpecTranslate == InitTranslate /\ [][NextTranslate]_vars

\* ------------------------------------------------------- the facade calls

\* getProviderFromEnv without toLowerCase.
getProviderFromEnvVerbatim(e) ==
  IF Truthy(e.GEMINI_CLI_PROVIDER) THEN e.GEMINI_CLI_PROVIDER ELSE ""

getProviderFromEnv(e) ==
  ToLower(IF Truthy(e.GEMINI_CLI_PROVIDER) THEN e.GEMINI_CLI_PROVIDER ELSE "")

\* getDeepSeekApiKey reading DEEPSEEK_API_KEY for every provider.
getDeepSeekApiKeyOfDeepSeek(e) ==
  IF Truthy(e.DEEPSEEK_API_KEY) THEN e.DEEPSEEK_API_KEY ELSE "throw 401"

\* getDeepSeekApiKey: the key, or "throw 401" for the error of code 401.
getDeepSeekApiKey(e) ==
  LET key == IF getProviderFromEnv(e) = "openai_compatible"
             THEN e.OPENAI_COMPAT_API_KEY ELSE e.DEEPSEEK_API_KEY
  IN  IF Truthy(key) THEN key ELSE "throw 401"

\* isDeepSeekEnabled without the test of another provider being selected.
isDeepSeekEnabledAutoDetectOnly(e) ==
  LET provider == getProviderFromEnv(e) IN
  IF provider = "deepseek" THEN TRUE
  ELSE IF provider = "openai_compatible" THEN TRUE
  ELSE Truthy(e.DEEPSEEK_API_KEY) /\ ~Truthy(e.GEMINI_API_KEY)

isDeepSeekEnabled(e) ==
  LET provider == getProviderFromEnv(e) IN
  IF provider = "deepseek" THEN TRUE
  ELSE IF provider = "openai_compatible" THEN TRUE
  ELSE IF provider # "" THEN FALSE
  ELSE Truthy(e.DEEPSEEK_API_KEY) /\ ~Truthy(e.GEMINI_API_KEY)

\* countTokens failing only when the family is disabled.
countTokensWhenEnabled(e) ==
  IF isDeepSeekEnabled(e) THEN "response" ELSE "UnsupportedOperation"

\* countTokens and embedContent: the outcome of the call.
countTokens(e) == "UnsupportedOperation"

embedContent(e) == "UnsupportedOperation"

\* A tool call of a completion.
ToolCall(id, name, arguments) == [id |-> id, name |-> name, arguments |-> arguments]

\* choice.finish_reason?.toUpperCase()
ToUpper(v) ==
  CASE v = "stop" -> "STOP"
    [] v = "tool_calls" -> "TOOL_CALLS"
    [] OTHER -> v

\* The completions of the backend: choices[0].message.content,
\* choices[0].message.tool_calls, choices[0].finish_reason and
\* usage.total_tokens (<<>>, "" and -1 when absent).
Responses ==
  { [content |-> <<"h">>, tool_calls |-> <<>>, finish_reason |-> "stop",
     total_tokens |-> 3],
    [content |-> <<>>,
     tool_calls |-> <<ToolCall("ida", "f", <<"{", "a1", "}">>),
                      ToolCall("idb", "g", <<"{", "a1">>)>>,
     finish_reason |-> "tool_calls", total_tokens |-> -1],
    [content |-> <<"i">>, tool_calls |-> <<ToolCall("idc", "g", <<>>)>>,
     finish_reason |-> "", total_tokens |-> 0] }

deepSeekResponseToGeminiResponse(resp) ==
  [parts |->
     (IF resp.content # <<>> THEN << [text |-> resp.content] >> ELSE <<>>)
     \o [i \in 1..Len(resp.tool_calls) |-> FunctionCallPart(resp.tool_calls[i])],
   finishReason |->
     IF resp.finish_reason # "" THEN ToUpper(resp.finish_reason) ELSE "STOP",
   totalTokenCount |-> resp.total_tokens]

\* The environments and the methods of the calls examined.
Envs ==
  [GEMINI_CLI_PROVIDER : {Unset, "", "deepseek", "DeepSeek", "openai_compatible",
                          "OPENAI_COMPATIBLE", "gemini", "vertex"},
   DEEPSEEK_API_KEY : {Unset, "", "k"},
   OPENAI_COMPAT_API_KEY : {Unset, "", "ko"},
   GEMINI_API_KEY : {Unset, "", "kg"},
   OPENAI_COMPAT_MODEL : {Unset},
   DEEPSEEK_MODEL : {Unset},
   OPENAI_COMPAT_TEMPERATURE : {Unset}]

Ops == {"generateContent", "generateContentStream", "countTokens", "embedContent"}

InitFacade ==
  /\ env \in Envs
  /\ op \in Ops
  /\ fpc = "call"
  /\ httpRequests = 0
  /\ keyReads = 0
  /\ fresult = "none"
  /\ fresponse = NoResponse
  /\ sent = NoBody
  /\ StreamInit(<<>>, <<>>)
  /\ TranslatorIdle
  /\ PairIdle
  /\ AuthIdle
  /\ DialogIdle

\* requestModel.startsWith('deepseek-')
StartsWithDeepSeek(requestModel) ==
  requestModel # <<>> /\ requestModel[1] = "deepseek-"

\* resolveDeepSeekModel with the request's model before the override.
resolveDeepSeekModelOfRequest(e, requestModel) ==
  LET provider == getProviderFromEnv(e)
      envModel == IF provider = "openai_compatible" THEN e.OPENAI_COMPAT_MODEL
                  ELSE e.DEEPSEEK_MODEL
  IN  IF StartsWithDeepSeek(requestModel) THEN requestModel
      ELSE IF Truthy(envModel) THEN <<envModel>>
      ELSE IF provider = "openai_compatible" THEN <<"gpt-4o-mini">>
      ELSE <<"deepseek-chat">>

resolveDeepSeekModel(e, requestModel) ==
  LET provider == getProviderFromEnv(e)
      envModel == IF provider = "openai_compatible" THEN e.OPENAI_COMPAT_MODEL
                  ELSE e.DEEPSEEK_MODEL
  IN  IF Truthy(envModel) THEN <<envModel>>
      ELSE IF StartsWithDeepSeek(requestModel) THEN requestModel
      ELSE IF provider = "openai_compatible" THEN <<"gpt-4o-mini">>
      ELSE <<"deepseek-chat">>

\* Number(raw) on the values of OPENAI_COMPAT_TEMPERATURE of the model.
Number(raw) ==
  CASE raw = "0.7" -> "0.7"
    [] raw = "0.70" -> "0.7"
    [] raw = "0" -> "0"
    [] raw = " " -> "0"
    [] raw = "Infinity" -> "Infinity"
    [] OTHER -> "NaN"

\* Number.isFinite(parsed)
IsFinite(parsed) == parsed \notin {"NaN", "Infinity", "-Infinity"}

resolveOpenAICompatTemperature(e) ==
  IF getProviderFromEnv(e) # "openai_compatible" THEN NoTemperature
  ELSE IF ~Truthy(e.OPENAI_COMPAT_TEMPERATURE) THEN NoTemperature
  ELSE IF ~IsFinite(Number(e.OPENAI_COMPAT_TEMPERATURE)) THEN NoTemperature
  ELSE [present |-> TRUE, value |-> Number(e.OPENAI_COMPAT_TEMPERATURE)]

\* userPromptId
UserPromptId == "prompt-1"

\* The body generateContent sends.
GenerateContentBody(e, req) ==
  LET translated == geminiRequestToDeepSeekMessages(req) IN
  [model |-> resolveDeepSeekModel(e, req.model),
   messages |-> translated.messages,
   tools |-> translated.tools,
   tool_choice |-> IF translated.tools.present THEN "auto" ELSE Unset,
   temperature |-> resolveOpenAICompatTemperature(e),
   stream |-> FALSE,
   user |-> UserPromptId]

\* The body generateContentStream sends.
GenerateContentStreamBody(e, req) ==
  LET translated == geminiRequestToDeepSeekMessages(req) IN
  [model |-> resolveDeepSeekModel(e, req.model),
   messages |-> translated.messages,
   tools |-> translated.tools,
   tool_choice |-> IF translated.tools.present THEN "auto" ELSE Unset,
   temperature |-> NoTemperature,
   stream |-> TRUE,
   user |-> UserPromptId]

\* generateContent and generateContentStream up to their await fetch(...):
\* the enablement guard, the credential, and the request issued with the
\* given body.
CallUpToFetch(requestBody) ==
  /\ IF ~isDeepSeekEnabled(env)
     THEN /\ fresult' = "NotEnabledError"
          /\ fpc' = "end"
          /\ UNCHANGED <<keyReads, httpRequests, sent>>
     ELSE /\ keyReads' = keyReads + 1
          /\ IF getDeepSeekApiKey(env) = "throw 401"
             THEN /\ fresult' = "MissingCredential"
                  /\ fpc' = "end"
                  /\ UNCHANGED <<httpRequests, sent>>
             ELSE /\ httpRequests' = httpRequests + 1
                  /\ sent' = requestBody
                  /\ fpc' = "fetch"
                  /\ UNCHANGED fresult
  /\ UNCHANGED <<env, op, fresponse, tvars, pvars, avars, dvars, streamVars>>

GenerateContent ==
  /\ fpc = "call"
  /\ op = "generateContent"
  /\ CallUpToFetch(GenerateContentBody(env, request))

GenerateContentStream ==
  /\ fpc = "call"
  /\ op = "generateContentStream"
  /\ CallUpToFetch(GenerateContentStreamBody(env, request))

\* The await fetch(...) of a facade call settles: rejected by the abort
\* signal, answered with a non-2xx status, or answered with a completion
\* (generateContent) or a body to stream (generateContentStream).
FacadeFetchSettles ==
  /\ fpc = "fetch"
  /\ fpc' = "end"
  /\ \/ fresult' = "AbortError" /\ UNCHANGED fresponse
     \/ fresult' = "HttpError" /\ UNCHANGED fresponse
     \/ /\ op = "generateContent"
        /\ \E resp \in Responses :
             fresponse' = deepSeekResponseToGeminiResponse(resp)
        /\ fresult' = "response"
     \/ /\ op = "generateContentStream"
        /\ \E hasBody \in BOOLEAN :
             fresult' = IF hasBody THEN "stream" ELSE "NoBodyError"
        /\ UNCHANGED fresponse
  /\ UNCHANGED <<env, op, httpRequests, keyReads, sent, tvars, pvars, avars, dvars, streamVars>>

CountTokens ==
  /\ fpc = "call"
  /\ op = "countTokens"
  /\ fresult' = countTokens(env)
  /\ fpc' = "end"
  /\ UNCHANGED <<env, op, httpRequests, keyReads, fresponse, sent, tvars, pvars, avars, dvars, streamVars>>

EmbedContent ==
  /\ fpc = "call"
  /\ op = "embedContent"
  /\ fresult' = embedContent(env)
  /\ fpc' = "end"
  /\ UNCHANGED <<env, op, httpRequests, keyReads, fresponse, sent, tvars, pvars, avars, dvars, streamVars>>

NextFacade ==
  \/ GenerateContent
  \/ GenerateContentStream
  \/ FacadeFetchSettles
  \/ CountTokens
  \/ EmbedContent

SpecFacade == InitFacade /\ [][NextFacade]_vars

\* The environment names this family, case-insensitively.
NamesFamily(e) ==
  e.GEMINI_CLI_PROVIDER \in {"deepseek", "DeepSeek", "openai_compatible",
                             "OPENAI_COMPATIBLE"}

NamesOpenAICompat(e) ==
  e.GEMINI_CLI_PROVIDER \in {"openai_compatible", "OPENAI_COMPATIBLE"}

NoSelector(e) == e.GEMINI_CLI_PROVIDER \in {Unset, ""}

Present(v) == v # Unset /\ v # ""

\* The enablement predicate as stated: the selector wins, and without
\* selector the family is detected by its key in the absence of Gemini's.
EnablementStated(e) ==
  IF NamesFamily(e) THEN TRUE
  ELSE IF ~NoSelector(e) THEN FALSE
  ELSE Present(e.DEEPSEEK_API_KEY) /\ ~Present(e.GEMINI_API_KEY)

\* The key of the active family is absent.
ActiveKeyAbsent(e) ==
  IF NamesOpenAICompat(e) THEN ~Present(e.OPENAI_COMPAT_API_KEY)
  ELSE ~Present(e.DEEPSEEK_API_KEY)

Generating == op \in {"generateContent", "generateContentStream"} /\ fpc # "call"

\* C15: when the family is enabled and the key of the active family is
\* absent, generateContent and generateContentStream fail with the
\* missing-credential error and no HTTP request has been issued.
C15_MissingCredentialBeforeHttp ==
  (Generating /\ EnablementStated(env) /\ ActiveKeyAbsent(env)) =>
    (fpc = "end" /\ fresult = "MissingCredential" /\ httpRequests = 0)

\* The openai_compatible key is missing while the DeepSeek key is set.
C15_Witness ==
  /\ Generating
  /\ NamesOpenAICompat(env)
  /\ Present(env.DEEPSEEK_API_KEY)
  /\ fresult = "MissingCredential"
  /\ keyReads = 1

\* C16: when the enablement predicate is false, generateContent and
\* generateContentStream fail at once, before the credential is read and
\* with no HTTP request issued.
C16_DisabledFailsFirst ==
  (Generating /\ ~EnablementStated(env)) =>
    (fpc = "end" /\ fresult = "NotEnabledError" /\ keyReads = 0
     /\ httpRequests = 0)

\* Another provider is selected while this family's key is set.
C16_Witness ==
  /\ Generating
  /\ env.GEMINI_CLI_PROVIDER = "gemini"
  /\ Present(env.DEEPSEEK_API_KEY)
  /\ ~Present(env.GEMINI_API_KEY)
  /\ fresult = "NotEnabledError"

\* C17: countTokens and embedContent fail in every configuration, issue no
\* HTTP request and return no result.
C17_CountAndEmbedFail ==
  (op \in {"countTokens", "embedContent"} /\ fpc # "call") =>
    (fpc = "end" /\ fresult = "UnsupportedOperation" /\ httpRequests = 0
     /\ fresponse = NoResponse)

\* countTokens has failed although the family is enabled and its key set.
C17_Witness ==
  /\ op = "countTokens"
  /\ fpc = "end"
  /\ EnablementStated(env)
  /\ ~ActiveKeyAbsent(env)
  /\ fresult = "UnsupportedOperation"

\* C18: the enablement predicate is true when the selector names this
\* family, in any case; false when the selector is set to another value,
\* whatever keys are present; and without selector true exactly when
\* DEEPSEEK_API_KEY is present and GEMINI_API_KEY is absent.
C18_EnablementPrecedence ==
  /\ isDeepSeekEnabled(env) = EnablementStated(env)
  /\ Generating => ((fresult = "NotEnabledError") = ~EnablementStated(env))

\* The guard let a call through for a selector written in capitals.
C18_Witness ==
  /\ Generating
  /\ env.GEMINI_CLI_PROVIDER = "OPENAI_COMPATIBLE"
  /\ ~Present(env.DEEPSEEK_API_KEY)
  /\ fpc = "fetch"


\* The positions of request.contents whose mark a message carries.
Origin(m) ==
  { i \in 1..Len(request.contents) :
      \E k \in 1..Len(m.content) : m.content[k] = PosTok(i) }

\* The system instruction normalizes to a non-empty text.
SystemTextNonEmpty ==
  LET n == normalizeSystemInstruction(request.systemInstruction) IN
  ~n.null /\ n.text # <<>>

\* C20: messages derived from turns appear in the order of the turns, and
\* a system message appears at most once, only as the first message, and
\* exactly when the normalized system instruction is non-empty.
C20_TurnOrderAndSystemFirst ==
  tpc = "end" =>
    /\ \A a, b \in 1..Len(messages) :
         a < b => \A i \in Origin(messages[a]), j \in Origin(messages[b]) : i <= j
    /\ \A k \in 1..Len(messages) : messages[k].role = "system" => k = 1
    /\ SystemTextNonEmpty <=> (messages # <<>> /\ messages[1].role = "system")
    /\ \A k \in 1..Len(messages) :
         messages[k].role # "system" => Origin(messages[k]) # {} \/
           messages[k].content \in {<<>>, <<"{", "}">>}

\* A system message, two tool messages of the first turn, then the
\* assistant message of the second.
C20_Witness ==
  /\ tpc = "end"
  /\ Len(messages) = 4
  /\ messages[1].role = "system"
  /\ messages[2].role = "tool" /\ Origin(messages[2]) = {1}
  /\ messages[3].role = "tool" /\ Origin(messages[3]) = {1}
  /\ messages[4].role = "assistant" /\ Origin(messages[4]) = {2}


\* ------------------------------------------- two streaming calls at once
Calls == {1, 2}

\* The most bytes of a read that does not take all that is left.
ReadSize == 3

\* The responses of the two calls.
PairStreams ==
  { <<"t1", "a0">>, <<"a1", "tf">>, <<"a0", "done">> }

\* One set of reader, decoder, map, done and buffer for all the calls.
ClosureShared(c) == 1

\* The closure of generateContentStream's invocation c, which holds its
\* reader, decoder, toolCallsByIndex, done and buffer.
Closure(c) == c

\* const reader = res.body.getReader() ... let buffer = ''
NewClosure(c) ==
  [reader |-> c, pending |-> <<>>, toolCallsByIndex |-> <<>>, done |-> FALSE,
   buffer |-> <<>>]

NewGen ==
  [pc |-> "fetch", lines |-> <<>>, cur |-> NoFrame, demand |-> FALSE,
   out |-> <<>>, result |-> "none"]

InitPair ==
  /\ inputs \in [Calls -> PairStreams]
  /\ wires = [c \in Calls |-> Encode(inputs[c])]
  /\ store = [c \in Calls |-> NewClosure(0)]
  /\ gens = [c \in Calls |-> NewGen]
  /\ FacadeIdle
  /\ TranslatorIdle
  /\ StreamInit(<<>>, <<>>)
  /\ AuthIdle
  /\ DialogIdle

GenYield(g, chunk, at) ==
  [g EXCEPT !.out = Append(@, chunk), !.demand = FALSE, !.pc = at]

GenReturn(g) ==
  [g EXCEPT !.result = "completed", !.pc = "end", !.demand = FALSE]

GenFlushAndReturn(g, map, at) ==
  LET f == flushToolCallsIfAny(map) IN
  IF f # <<>> THEN GenYield(g, f[1], at) ELSE GenReturn(g)

\* The rest of a frame's dispatch once its tool-call deltas are merged.
GenRestOfFrame(g, map, c, rest) ==
  LET f == IF c.finish_reason # "" THEN flushToolCallsIfAny(map) ELSE <<>> IN
  IF f # <<>> THEN GenYield(g, f[1], "afterFinish")
  ELSE [g EXCEPT !.pc = NextPc(rest)]

\* Call c: await fetch(...) resolves and the closure state is created.
PairFetchResolve(c) ==
  /\ gens[c].pc = "fetch"
  /\ store' = [store EXCEPT ![Closure(c)] = NewClosure(c)]
  /\ gens' = [gens EXCEPT ![c].pc = "loop"]
  /\ UNCHANGED <<inputs, wires>>

\* The consumer of call c asks for its next chunk.
PairConsumerNext(c) ==
  /\ gens[c].pc \notin {"fetch", "end"}
  /\ ~gens[c].demand
  /\ gens' = [gens EXCEPT ![c].demand = TRUE]
  /\ UNCHANGED <<inputs, wires, store>>

PairLoopTop(c) ==
  /\ gens[c].pc = "loop"
  /\ gens[c].demand
  /\ gens' = [gens EXCEPT ![c] =
                IF ~store[Closure(c)].done THEN [@ EXCEPT !.pc = "reading"]
                ELSE GenFlushAndReturn(@, store[Closure(c)].toolCallsByIndex,
                                       "afterFinal")]
  /\ UNCHANGED <<inputs, wires, store>>

\* await reader.read() of call c settles.
PairReadResolve(c) ==
  /\ gens[c].pc = "reading"
  /\ LET cl == store[Closure(c)]
         w == wires[cl.reader]
     IN  \/ /\ w # <<>>
            /\ \E k \in {IF Len(w) < ReadSize THEN Len(w) ELSE ReadSize, Len(w)} :
                 LET d == Decode(cl.pending, SubSeq(w, 1, k))
                     ls == SplitLines(cl.buffer \o d[1])
                 IN  /\ wires' = [wires EXCEPT ![cl.reader] = SubSeq(w, k + 1, Len(w))]
                     /\ store' = [store EXCEPT ![Closure(c)] =
                                    [cl EXCEPT !.pending = d[2], !.done = FALSE,
                                               !.buffer = PartialLine(ls)]]
                     /\ gens' = [gens EXCEPT ![c].lines = CompleteLines(ls),
                                             ![c].pc = NextPc(CompleteLines(ls))]
         \/ /\ w = <<>>
            /\ LET ls == SplitLines(cl.buffer)
               IN  /\ store' = [store EXCEPT ![Closure(c)] =
                                  [cl EXCEPT !.done = TRUE,
                                             !.buffer = PartialLine(ls)]]
                   /\ gens' = [gens EXCEPT ![c].lines = CompleteLines(ls),
                                           ![c].pc = NextPc(CompleteLines(ls))]
            /\ UNCHANGED wires
  /\ UNCHANGED inputs

PairDispatchLine(c) ==
  /\ gens[c].pc = "lines"
  /\ gens[c].demand
  /\ gens[c].lines # <<>>
  /\ LET g == [gens[c] EXCEPT !.lines = Tail(@)]
         cl == store[Closure(c)]
         cls == LineClass(Head(gens[c].lines))
         f == JsonParse(DataOf(Trim(Head(gens[c].lines))))
         map == MergeToolCalls(cl.toolCallsByIndex, f.tool_calls)
     IN  CASE cls \in {"skip", "malformed"} ->
                /\ gens' = [gens EXCEPT ![c] = [g EXCEPT !.pc = NextPc(g.lines)]]
                /\ UNCHANGED store
           [] cls = "done" ->
                /\ gens' = [gens EXCEPT ![c] =
                              GenFlushAndReturn(g, cl.toolCallsByIndex, "afterDone")]
                /\ UNCHANGED store
           [] cls = "frame" /\ ContentDelta(f) # <<>> ->
                /\ gens' = [gens EXCEPT ![c] =
                              [GenYield(g, createGeminiStreamTextChunk(ContentDelta(f)),
                                        "afterText") EXCEPT !.cur = f]]
                /\ UNCHANGED store
           [] cls = "frame" /\ ContentDelta(f) = <<>> ->
                /\ store' = [store EXCEPT ![Closure(c)].toolCallsByIndex = map]
                /\ gens' = [gens EXCEPT ![c] = GenRestOfFrame(g, map, f, g.lines)]
  /\ UNCHANGED <<inputs, wires>>

PairResumeAfterText(c) ==
  /\ gens[c].pc = "afterText"
  /\ gens[c].demand
  /\ LET map == MergeToolCalls(store[Closure(c)].toolCallsByIndex,
                               gens[c].cur.tool_calls)
     IN  /\ store' = [store EXCEPT ![Closure(c)].toolCallsByIndex = map]
         /\ gens' = [gens EXCEPT ![c] =
                       [GenRestOfFrame(@, map, @.cur, @.lines) EXCEPT !.cur = NoFrame]]
  /\ UNCHANGED <<inputs, wires>>

PairResumeAfterFinish(c) ==
  /\ gens[c].pc = "afterFinish"
  /\ gens[c].demand
  /\ gens' = [gens EXCEPT ![c].pc = NextPc(gens[c].lines)]
  /\ UNCHANGED <<inputs, wires, store>>

PairResumeAndReturn(c) ==
  /\ gens[c].pc \in {"afterDone", "afterFinal"}
  /\ gens[c].demand
  /\ gens' = [gens EXCEPT ![c] = GenReturn(@)]
  /\ UNCHANGED <<inputs, wires, store>>

NextPair ==
  /\ \E c \in Calls :
       \/ PairFetchResolve(c)
       \/ PairConsumerNext(c)
       \/ PairLoopTop(c)
       \/ PairReadResolve(c)
       \/ PairDispatchLine(c)
       \/ PairResumeAfterText(c)
       \/ PairResumeAfterFinish(c)
       \/ PairResumeAndReturn(c)
  /\ UNCHANGED <<fvars, tvars, avars, dvars, streamVars>>

SpecPair == InitPair /\ [][NextPair]_vars

\* C14: two streaming calls pulled in any interleaving each emit the chunks
\* of their own response, as when consumed alone, and a step of one call
\* leaves the map, buffer, done flag, reader and generator of the other
\* unchanged.
C14_CallsIndependent ==
  [][ \A c \in Calls :
        /\ gens'[c].result = "completed" => gens'[c].out = RefOut(inputs[c], <<>>)
        /\ gens'[c] # gens[c] =>
             \A d \in Calls \ {c} :
               gens'[d] = gens[d] /\ wires'[d] = wires[d] /\ store'[d] = store[d]
    ]_vars

\* Both calls are in mid-stream, each holding a partial line of its own
\* response, the first with a merged tool call and the second with a chunk
\* emitted.
C14_Witness ==
  /\ gens[1].result = "none"
  /\ gens[2].result = "none"
  /\ store[1].buffer # <<>>
  /\ store[1].toolCallsByIndex # <<>>
  /\ store[2].buffer # <<>>
  /\ store[2].toolCallsByIndex = <<>>
  /\ gens[2].out # <<>>


\* ------------------------------------------ claims about the translator
IsModelTurn(content) == content.role = "model"

IsAssistant(m) == m.role = "assistant"

IsTool(m) == m.role = "tool"

IsUser(m) == m.role = "user"

\* C21: every model-role turn is translated to exactly one assistant
\* message whose content is the turn's flattened text, also a turn with no
\* parts or only empty text.
C21_ModelTurnOneAssistant ==
  tpc = "end" =>
    LET turns == SelectSeq(normalizedContents(request), IsModelTurn)
        assistant == SelectSeq(messages, IsAssistant)
    IN  /\ Len(assistant) = Len(turns)
        /\ \A k \in 1..Len(assistant) :
             assistant[k].content = contentPartsToText(turns[k].parts)

HasFunctionResponse(content) ==
  \E k \in 1..Len(content.parts) : IsFunctionResponse(content.parts[k])

\* The function-response parts of the user turns, in turn and part order.
RECURSIVE FunctionResponsesOf(_)
FunctionResponsesOf(contents) ==
  IF contents = <<>> THEN <<>>
  ELSE (IF Head(contents).role = "user"
        THEN SelectSeq(Head(contents).parts, IsFunctionResponse) ELSE <<>>)
       \o FunctionResponsesOf(Tail(contents))

\* A turn that gives a user message: neither a model turn nor a user turn
\* of function responses.
GivesUserMessage(content) ==
  /\ content.role # "model"
  /\ ~(content.role = "user" /\ HasFunctionResponse(content))

\* C22: a user turn with function-response parts gives one tool message
\* per function-response part, in part order, and no user message; the
\* tool_call_id is the response's id when present, else synthesized from
\* the name; the content is the payload's string output verbatim, else the
\* serialized payload.
C22_ToolMessagePerResponse ==
  tpc = "end" =>
    LET frs == FunctionResponsesOf(normalizedContents(request))
        tm == SelectSeq(messages, IsTool)
    IN  /\ Len(tm) = Len(frs)
        /\ \A k \in 1..Len(tm) :
             /\ frs[k].id # Unset => tm[k].tool_call_id = <<frs[k].id>>
             /\ frs[k].id = Unset =>
                  /\ Len(tm[k].tool_call_id) > 1
                  /\ tm[k].tool_call_id[1] =
                       IF frs[k].name # Unset THEN frs[k].name ELSE "tool"
             /\ tm[k].content =
                  IF frs[k].response = "output" THEN frs[k].text
                  ELSE IF frs[k].response = "absent" THEN <<"{", "}">>
                  ELSE <<"{", frs[k].response>> \o frs[k].text \o <<"}">>
        /\ Len(SelectSeq(messages, IsUser)) =
             Len(SelectSeq(normalizedContents(request), GivesUserMessage))

\* The response of id call_1 with a string output, then one without id.
C22_Witness ==
  /\ tpc = "end"
  /\ Len(messages) = 2
  /\ messages[1] = Message("tool", <<"p1", "42">>, <<"call_1">>)
  /\ messages[2].role = "tool"
  /\ messages[2].tool_call_id = <<"tool", "_", "r1">>
  /\ messages[2].content = <<"{", "result", "p1", "}">>

\* The system instructions that carry a text in each accepted shape.
ShapesCarrying(text) ==
  { SystemInstruction("string", text, <<>>),
    SystemInstruction("content", <<>>, <<TextPart(text)>>),
    SystemInstruction("part", <<>>, <<TextPart(text)>>),
    SystemInstruction("partArray", <<>>, <<TextPart(text)>>) }

RECURSIVE JoinTexts(_)
JoinTexts(parts) ==
  IF parts = <<>> THEN <<>> ELSE Head(parts).text \o JoinTexts(Tail(parts))

\* A single user turn with text parts, no system instruction, no tools.
SingleUserTextTurn ==
  /\ request.systemInstruction.shape = "absent"
  /\ request.functionDeclarations = <<>>
  /\ Len(request.contents) = 1
  /\ request.contents[1].role = "user"
  /\ request.contents[1].parts # <<>>
  /\ \A k \in 1..Len(request.contents[1].parts) :
       request.contents[1].parts[k].kind = "text"

\* C27: a single user turn with text parts, no system instruction and no
\* tool declarations gives exactly one message, of role user, with that
\* text, and no tools field.
C27_SingleUserTurn ==
  (tpc = "end" /\ SingleUserTextTurn) =>
    /\ Len(messages) = 1
    /\ messages[1].role = "user"
    /\ messages[1].content = JoinTexts(request.contents[1].parts)
    /\ messages[1].tool_call_id = NoToolCallId
    /\ ~tools.present

\* The turn had two text parts and was passed without an array.
C27_Witness ==
  /\ tpc = "end"
  /\ SingleUserTextTurn
  /\ ~request.isArray
  /\ Len(request.contents[1].parts) = 2
  /\ messages = <<Message("user", <<"p1", "p1", "x">>, NoToolCallId)>>


\* ------------------------------------------------- the body of the request
\* The environments of an enabled family with its keys, over the model
\* overrides and the temperature.
BodyEnvs ==
  [GEMINI_CLI_PROVIDER : {Unset, "deepseek", "openai_compatible", "OPENAI_COMPATIBLE"},
   DEEPSEEK_API_KEY : {"k"},
   OPENAI_COMPAT_API_KEY : {"ko"},
   GEMINI_API_KEY : {Unset},
   OPENAI_COMPAT_MODEL : {Unset, "", "om"},
   DEEPSEEK_MODEL : {Unset, "", "dm"},
   OPENAI_COMPAT_TEMPERATURE : {Unset, "", "0.7", "0.70", "0", "abc", "Infinity"}]

\* The values of request.model; <<>> when it is undefined.
RequestModels ==
  { <<>>, <<"deepseek-", "reasoner">>, <<"deepseek-">>, <<"deepseek">>,
    <<"DeepSeek-", "x">>, <<"gemini-", "pro">> }

InitBody ==
  /\ env \in BodyEnvs
  /\ op \in {"generateContent", "generateContentStream"}
  /\ fpc = "call"
  /\ httpRequests = 0
  /\ keyReads = 0
  /\ fresult = "none"
  /\ fresponse = NoResponse
  /\ sent = NoBody
  /\ \E model \in RequestModels, has \in BOOLEAN, fds \in DeclarationLists :
       /\ ~has => fds = <<>>
       /\ request = [model |-> model,
                     systemInstruction |-> SystemInstruction("absent", <<>>, <<>>),
                     isArray |-> TRUE,
                     contents |-> <<Content("user", <<TextPart(<<"p1">>)>>)>>,
                     hasDeclarations |-> has, functionDeclarations |-> fds]
  /\ tpc = "call"
  /\ messages = <<>>
  /\ tools = NoTools
  /\ StreamInit(<<>>, <<>>)
  /\ PairIdle
  /\ AuthIdle
  /\ DialogIdle

NextBody ==
  \/ GenerateContent
  \/ GenerateContentStream
  \/ FacadeFetchSettles

SpecBody == InitBody /\ [][NextBody]_vars

HasName(fd) == fd.name # Unset /\ fd.name # ""

\* The declarations of the request that have a name.
NamedDeclarations ==
  IF request.hasDeclarations THEN SelectSeq(request.functionDeclarations, HasName)
  ELSE <<>>

\* C24: the tool list has one entry per declaration with a name, in
\* declaration order, and none for the others; without entry the tools
\* field is absent, not an empty array; the body carries tool_choice
\* 'auto' exactly when the tools field is present.
C24_ToolsPerNamedDeclaration ==
  sent # NoBody =>
    /\ sent.tools.present <=> NamedDeclarations # <<>>
    /\ Len(sent.tools.list) = Len(NamedDeclarations)
    /\ \A k \in 1..Len(sent.tools.list) :
         /\ sent.tools.list[k].type = "function"
         /\ sent.tools.list[k].name = NamedDeclarations[k].name
    /\ (sent.tool_choice = "auto") <=> sent.tools.present
    /\ sent.tool_choice \in {"auto", Unset}

\* Three declarations, the second without name, in a streaming request.
C24_Witness ==
  /\ sent # NoBody
  /\ op = "generateContentStream"
  /\ Len(request.functionDeclarations) = 3
  /\ Len(sent.tools.list) = 2
  /\ sent.tools.list[2].name = "g"
  /\ sent.tool_choice = "auto"

\* C25: the body carries a temperature field exactly when the provider is
\* openai_compatible and the configured temperature parses as a finite
\* number, and then with that value, in generateContent and in
\* generateContentStream alike.
C25_TemperatureInBody ==
  sent # NoBody =>
    LET raw == env.OPENAI_COMPAT_TEMPERATURE
        finite == Present(raw) /\ IsFinite(Number(raw))
    IN  /\ sent.temperature.present <=> (NamesOpenAICompat(env) /\ finite)
        /\ sent.temperature.present => sent.temperature.value = Number(raw)

\* The same, for the body of generateContent only.
TemperatureInBodyOfGenerateContent == op = "generateContent" => C25_TemperatureInBody

\* The override of the active family, "" when it is not set.
ModelOverride ==
  LET v == IF NamesOpenAICompat(env) THEN env.OPENAI_COMPAT_MODEL
           ELSE env.DEEPSEEK_MODEL
  IN  IF Present(v) THEN v ELSE ""

\* C26: the model sent is the active family's override when set, else the
\* request's model when it starts with 'deepseek-', else the family
\* default; the override wins over the request model, and a request model
\* without the prefix is never sent.
C26_ModelResolution ==
  sent # NoBody =>
    /\ sent.model =
         IF ModelOverride # "" THEN <<ModelOverride>>
         ELSE IF request.model # <<>> /\ request.model[1] = "deepseek-"
              THEN request.model
         ELSE IF NamesOpenAICompat(env) THEN <<"gpt-4o-mini">>
         ELSE <<"deepseek-chat">>
    /\ ~(request.model # <<>> /\ request.model[1] = "deepseek-") =>
         sent.model # request.model

\* The override of the active family won over a request model that has
\* the prefix, the other family's override being set too.
C26_Witness ==
  /\ sent # NoBody
  /\ env.GEMINI_CLI_PROVIDER = "OPENAI_COMPATIBLE"
  /\ env.OPENAI_COMPAT_MODEL = "om"
  /\ env.DEEPSEEK_MODEL = "dm"
  /\ request.model = <<"deepseek-", "reasoner">>
  /\ sent.model = <<"om">>


\* ------------------------------------- claims about the end of the stream
\* C28: when the sequence completes on transport exhaustion, every data
\* frame delivered has been dispatched, also a final frame sent without
\* line terminator: none is left in the line buffer.
C28_NoFrameLeftInBuffer ==
  (result = "completed" /\ done) => LineClass(buffer) # "frame"

\* The map the lines merge into, read off the lines.
MapOf(kinds) == MergeToolCalls(<<>>, ExpectedDeltas(kinds))

\* C29: within a frame the text chunk is emitted first, then the frame's
\* tool-call deltas are merged, then the finish-reason flush is made, so
\* that it includes the deltas of the same frame; the finish reason does
\* not end the sequence and the lines after it are dispatched.
C29_OrderWithinFrame ==
  /\ pc = "afterText" =>
       /\ cur = KindFrame[sse[nDispatched]]
       /\ out[Len(out)] = createGeminiStreamTextChunk(cur.content)
       /\ toolCallsByIndex = MapOf(SubSeq(sse, 1, nDispatched - 1))
  /\ pc = "afterFinish" =>
       LET frame == KindFrame[sse[nDispatched]] IN
       /\ frame.finish_reason # ""
       /\ result = "none"
       /\ toolCallsByIndex = MapOf(Dispatched)
       /\ out[Len(out)] =
            createGeminiStreamToolCallsChunk(SortByIndex(MapOf(Dispatched)))
       /\ frame.content # <<>> =>
            /\ Len(out) >= 2
            /\ out[Len(out) - 1] = createGeminiStreamTextChunk(frame.content)
  /\ (result = "completed" /\ ~SentinelSeen) =>
       /\ lines = <<>>
       /\ nDispatched = Len(SentLines)

\* A frame with content, two tool-call deltas and a finish reason gave its
\* text chunk and then a flush of both calls, and the frame after it gave
\* its text chunk.
C29_Witness ==
  /\ sse = <<"tf", "t1">>
  /\ nDispatched = 2
  /\ Len(out) = 3
  /\ out[1] = createGeminiStreamTextChunk(<<"i">>)
  /\ IsToolCallsChunk(out[2])
  /\ Len(out[2].parts) = 2
  /\ out[3] = createGeminiStreamTextChunk(<<"h">>)


\* -------------------------------------------------------- the auth dialog
MaxSelections == 2

Selections ==
  {"login_with_google", "compute_adc", "gemini_api_key", "deepseek_api_key",
   "openai_compatible_api_key", "vertex_ai"}

\* The auth type a selection stands for.
AuthTypeOf(selection) ==
  CASE selection = "login_with_google" -> "LOGIN_WITH_GOOGLE"
    [] selection = "compute_adc" -> "COMPUTE_ADC"
    [] selection = "vertex_ai" -> "USE_VERTEX_AI"
    [] OTHER -> "USE_GEMINI"

\* The options offered: compute_adc only in Cloud Shell or with
\* GEMINI_CLI_USE_COMPUTE_ADC, and those of the enforced auth type only.
ItemsOf(computeAdc, enforcedType) ==
  LET all == IF computeAdc THEN Selections ELSE Selections \ {"compute_adc"} IN
  IF enforcedType = Unset THEN all
  ELSE { v \in all :
           CASE enforcedType = "LOGIN_WITH_GOOGLE" -> v = "login_with_google"
             [] enforcedType = "COMPUTE_ADC" -> v = "compute_adc"
             [] enforcedType = "USE_GEMINI" ->
                  v \in {"gemini_api_key", "deepseek_api_key",
                         "openai_compatible_api_key"}
             [] enforcedType = "USE_VERTEX_AI" -> v = "vertex_ai"
             [] OTHER -> FALSE }

\* process.env after the assignment of GEMINI_CLI_PROVIDER for a selection.
SetProvider(e, selection) ==
  CASE selection = "deepseek_api_key" ->
         [e EXCEPT !.GEMINI_CLI_PROVIDER = "deepseek"]
    [] selection = "openai_compatible_api_key" ->
         [e EXCEPT !.GEMINI_CLI_PROVIDER = "openai_compatible"]
    [] selection = "gemini_api_key" ->
         [e EXCEPT !.GEMINI_CLI_PROVIDER = "gemini"]
    [] selection = "vertex_ai" ->
         [e EXCEPT !.GEMINI_CLI_PROVIDER = Unset]
    [] OTHER -> e

AuthEnvs ==
  [GEMINI_CLI_PROVIDER : {Unset, "deepseek", "gemini"},
   DEEPSEEK_API_KEY : {Unset, "k"},
   OPENAI_COMPAT_API_KEY : {Unset},
   GEMINI_API_KEY : {Unset, "kg"},
   OPENAI_COMPAT_MODEL : {Unset},
   DEEPSEEK_MODEL : {Unset},
   OPENAI_COMPAT_TEMPERATURE : {Unset}]

InitAuth ==
  /\ env \in AuthEnvs
  /\ op = "none"
  /\ fpc = "end"
  /\ httpRequests = 0
  /\ keyReads = 0
  /\ fresult = "none"
  /\ fresponse = NoResponse
  /\ sent = NoBody
  /\ \E computeAdc \in BOOLEAN,
        enforcedType \in {Unset, "LOGIN_WITH_GOOGLE", "USE_GEMINI", "other"} :
       items = ItemsOf(computeAdc, enforcedType)
  /\ browserSuppressed \in BOOLEAN
  /\ selectedType \in {Unset, "USE_GEMINI"}
  /\ authState = "Updating"
  /\ authError = ""
  /\ authContext = FALSE
  /\ exiting = "no"
  /\ customDialog = "none"
  /\ providers = "none"
  /\ awaiting = <<>>
  /\ lastSelection = "none"
  /\ nSelections = 0
  /\ TranslatorIdle
  /\ PairIdle
  /\ DialogIdle
  /\ StreamInit(<<>>, <<>>)

\* What an auth dialog step leaves alone.
AuthFrame ==
  UNCHANGED <<op, fpc, httpRequests, keyReads, fresult, fresponse, sent, items,
              browserSuppressed, tvars, pvars, dvars, streamVars>>

\* handleAuthSelect(selection), with onSelect up to its await when the
\* validation passes.
HandleAuthSelect(selection) ==
  /\ exiting # "exited"
  /\ selection \in items
  /\ nSelections < MaxSelections
  /\ nSelections' = nSelections + 1
  /\ env' = SetProvider(env, selection)
  /\ \E error \in BOOLEAN :
       IF error
       THEN /\ authError' = "validation"
            /\ UNCHANGED <<authContext, awaiting, lastSelection>>
       ELSE /\ lastSelection' = selection
            /\ UNCHANGED authError
            /\ IF exiting = "yes"
               THEN UNCHANGED <<authContext, awaiting>>
               ELSE /\ authContext' = (selection = "login_with_google")
                    /\ awaiting' = Append(awaiting, selection)
  /\ UNCHANGED <<selectedType, authState, exiting, customDialog, providers>>
  /\ AuthFrame

\* onSelect(selection, scope) after await clearCachedCredentialFile().
OnSelectResume ==
  /\ exiting # "exited"
  /\ awaiting # <<>>
  /\ LET selection == Head(awaiting)
         authType == AuthTypeOf(selection)
     IN  /\ awaiting' = Tail(awaiting)
         /\ env' = SetProvider(env, selection)
         /\ selectedType' = authType
         /\ IF authType = "LOGIN_WITH_GOOGLE" /\ browserSuppressed
            THEN /\ exiting' = "yes"
                 /\ UNCHANGED <<authState, customDialog>>
            ELSE /\ UNCHANGED exiting
                 /\ IF selection = "deepseek_api_key"
                    THEN /\ authState' = "AwaitingApiKeyInput"
                         /\ UNCHANGED customDialog
                    ELSE IF selection = "openai_compatible_api_key"
                    THEN /\ customDialog' = "OpenAICompatConfigDialog"
                         /\ UNCHANGED authState
                    ELSE IF selection = "gemini_api_key"
                    THEN /\ authState' = IF env.GEMINI_API_KEY # Unset
                                         THEN "Unauthenticated"
                                         ELSE "AwaitingApiKeyInput"
                         /\ UNCHANGED customDialog
                    ELSE /\ authState' = "Unauthenticated"
                         /\ UNCHANGED customDialog
  /\ UNCHANGED <<authError, authContext, providers, lastSelection, nSelections>>
  /\ AuthFrame

\* The escape key.
Escape ==
  /\ exiting # "exited"
  /\ authError = ""
  /\ IF selectedType = Unset
     THEN /\ authError' = "must select"
          /\ UNCHANGED authState
     ELSE /\ exiting = "no"
          /\ authState' = "Unauthenticated"
          /\ UNCHANGED authError
  /\ UNCHANGED <<env, selectedType, authContext, exiting, customDialog,
                 providers, awaiting, lastSelection, nSelections>>
  /\ AuthFrame

\* onHighlight of the option list.
Highlight ==
  /\ exiting # "exited"
  /\ authError # ""
  /\ authError' = ""
  /\ UNCHANGED <<env, selectedType, authState, authContext, exiting,
                 customDialog, providers, awaiting, lastSelection, nSelections>>
  /\ AuthFrame

\* onCancel of the OpenAI-compatible config dialog.
ConfigCancel ==
  /\ exiting # "exited"
  /\ customDialog # "none"
  /\ customDialog' = "none"
  /\ UNCHANGED <<env, selectedType, authState, authError, authContext, exiting,
                 providers, awaiting, lastSelection, nSelections>>
  /\ AuthFrame

\* onComplete of the OpenAI-compatible config dialog.
ConfigComplete ==
  /\ exiting # "exited"
  /\ customDialog # "none"
  /\ customDialog' = "none"
  /\ providers' = "written"
  /\ authState' = "AwaitingApiKeyInput"
  /\ UNCHANGED <<env, selectedType, authError, authContext, exiting, awaiting,
                 lastSelection, nSelections>>
  /\ AuthFrame

\* The timer of the restart: process.exit(RELAUNCH_EXIT_CODE).
ExitForRelaunch ==
  /\ exiting = "yes"
  /\ exiting' = "exited"
  /\ UNCHANGED <<env, selectedType, authState, authError, authContext,
                 customDialog, providers, awaiting, lastSelection, nSelections>>
  /\ AuthFrame

NextAuth ==
  \/ \E selection \in Selections : HandleAuthSelect(selection)
  \/ OnSelectResume
  \/ Escape
  \/ Highlight
  \/ ConfigCancel
  \/ ConfigComplete
  \/ ExitForRelaunch

SpecAuth == InitAuth /\ [][NextAuth]_vars

\* C30: after any sequence of successful selections the enablement
\* predicate is true exactly when the most recent selection was the
\* DeepSeek key or the OpenAI-compatible key option; any other selection
\* after it leaves the family disabled.
C30_EnabledIffLastSelectionOfFamily ==
  (lastSelection # "none" /\ awaiting = <<>>) =>
    (isDeepSeekEnabled(env) <=>
       lastSelection \in {"deepseek_api_key", "openai_compatible_api_key"})


\* A selection whose validation fails in this step: it counts, it is not
\* passed to onSelect and the error is reported.
ValidationFails ==
  /\ exiting = "no"
  /\ nSelections' = nSelections + 1
  /\ awaiting' = awaiting
  /\ lastSelection' = lastSelection
  /\ authError' = "validation"

\* C31: when the validation of a selected auth method fails, only the auth
\* error changes: GEMINI_CLI_PROVIDER, the stored selected auth type, the
\* auth state and the custom dialog are left unchanged.
C31_FailedValidationOnlyReports ==
  [][ValidationFails =>
        /\ env' = env
        /\ selectedType' = selectedType
        /\ authState' = authState
        /\ customDialog' = customDialog]_vars

\* The same, without the provider selector.
FailedValidationKeepsSettingsAndState ==
  [][ValidationFails =>
        /\ selectedType' = selectedType
        /\ authState' = authState
        /\ customDialog' = customDialog]_vars

\* ------------------------------------- the OpenAI-compatible config dialog
\* One mounted OpenAICompatConfigDialog: its steps, the text it is handed and
\* the onComplete calls it makes.

\* Number of handleSubmitText calls of one run.
MaxSubmits == 4

\* The texts a submit can hand over.
InputTexts ==
  {<<>>, <<"SP">>, <<"u">>, <<"SP", "u", "SP">>, <<"0.7">>, <<"SP", "0.7">>,
   <<"Infinity">>, <<"-">>}

\* The defaults the props can carry.
DefaultBaseUrls == {<<"https://api.openai.com/v1">>, <<>>, <<"SP", "u">>}

DefaultModels == {<<"gpt-4o-mini">>, <<>>}

DefaultTemperatures == {"0.2", "0.7"}

Scopes == {"User", "Workspace"}

\* !v of a string.
FalsyNever(v) == FALSE

Falsy(v) == v = <<>>

\* Number(v) of a trimmed text: the empty string is 0.
NumberOfText(v) ==
  IF v = <<>> THEN "0" ELSE IF Len(v) = 1 THEN Number(v[1]) ELSE "NaN"

\* The order of the steps.
StepRank(st) ==
  CASE st = "scope" -> 1
    [] st = "baseUrl" -> 2
    [] st = "defaultModel" -> 3
    [] st = "temperature" -> 4

InitDialog ==
  /\ dialogStep = "scope"
  /\ dialogScope \in Scopes
  /\ dialogBaseUrl \in DefaultBaseUrls
  /\ dialogDefaultModel \in DefaultModels
  /\ dialogTemperature \in DefaultTemperatures
  /\ dialogError = ""
  /\ rendered = RenderOf(dialogStep, dialogScope, dialogBaseUrl,
                         dialogDefaultModel)
  /\ completions = <<>>
  /\ cancelled = FALSE
  /\ submitted = <<>>
  /\ nSubmits = 0
  /\ FacadeIdle
  /\ TranslatorIdle
  /\ PairIdle
  /\ AuthIdle
  /\ StreamInit(<<>>, <<>>)

\* What a step of the config dialog leaves alone.
DialogFrame == UNCHANGED <<fvars, tvars, pvars, avars, streamVars>>

\* onSelect of the scope step's RadioButtonSelect.
SelectScope(value) ==
  /\ rendered.step = "scope"
  /\ dialogScope' = value
  /\ dialogStep' = "baseUrl"
  /\ UNCHANGED <<dialogBaseUrl, dialogDefaultModel, dialogTemperature,
                 dialogError, rendered, completions, cancelled, submitted,
                 nSubmits>>
  /\ DialogFrame

\* handleSubmitText(value), as the handler of the last render.
HandleSubmitText(value) ==
  /\ rendered.step # "scope"
  /\ nSubmits < MaxSubmits
  /\ nSubmits' = nSubmits + 1
  /\ submitted' = value
  /\ LET v == Trim(value)
         parsed == NumberOfText(v)
     IN  CASE rendered.step = "baseUrl" ->
                IF Falsy(v)
                THEN /\ dialogError' = "Base URL cannot be empty."
                     /\ UNCHANGED <<dialogStep, dialogBaseUrl,
                                    dialogDefaultModel, dialogTemperature,
                                    completions>>
                ELSE /\ dialogError' = ""
                     /\ dialogBaseUrl' = v
                     /\ dialogStep' = "defaultModel"
                     /\ UNCHANGED <<dialogDefaultModel, dialogTemperature,
                                    completions>>
           [] rendered.step = "defaultModel" ->
                IF Falsy(v)
                THEN /\ dialogError' = "Default model cannot be empty."
                     /\ UNCHANGED <<dialogStep, dialogBaseUrl,
                                    dialogDefaultModel, dialogTemperature,
                                    completions>>
                ELSE /\ dialogError' = ""
                     /\ dialogDefaultModel' = v
                     /\ dialogStep' = "temperature"
                     /\ UNCHANGED <<dialogBaseUrl, dialogTemperature,
                                    completions>>
           [] rendered.step = "temperature" ->
                IF ~IsFinite(parsed)
                THEN /\ dialogError' = "Temperature must be a number."
                     /\ UNCHANGED <<dialogStep, dialogBaseUrl,
                                    dialogDefaultModel, dialogTemperature,
                                    completions>>
                ELSE /\ dialogError' = ""
                     /\ dialogTemperature' = parsed
                     /\ completions' =
                          Append(completions,
                                 [scope |-> rendered.scope,
                                  baseUrl |-> rendered.baseUrl,
                                  defaultModel |-> rendered.defaultModel,
                                  temperature |-> parsed])
                     /\ UNCHANGED <<dialogStep, dialogBaseUrl,
                                    dialogDefaultModel>>
  /\ UNCHANGED <<dialogScope, rendered, cancelled>>
  /\ DialogFrame

\* onCancel of the text input.
Cancel ==
  /\ rendered.step # "scope"
  /\ cancelled' = TRUE
  /\ UNCHANGED <<dialogStep, dialogScope, dialogBaseUrl, dialogDefaultModel,
                 dialogTemperature, dialogError, rendered, completions,
                 submitted, nSubmits>>
  /\ DialogFrame

\* The component renders again with its current state.
Render ==
  /\ rendered # RenderOf(dialogStep, dialogScope, dialogBaseUrl,
                         dialogDefaultModel)
  /\ rendered' = RenderOf(dialogStep, dialogScope, dialogBaseUrl,
                          dialogDefaultModel)
  /\ UNCHANGED <<dialogStep, dialogScope, dialogBaseUrl, dialogDefaultModel,
                 dialogTemperature, dialogError, completions, cancelled,
                 submitted, nSubmits>>
  /\ DialogFrame

NextDialog ==
  \/ \E value \in Scopes : SelectScope(value)
  \/ \E value \in InputTexts : HandleSubmitText(value)
  \/ Cancel
  \/ Render

SpecDialog == InitDialog /\ [][NextDialog]_vars

\* A step in which handleSubmitText is called.
Submitting == nSubmits' = nSubmits + 1

\* The submitted text is one the step rejects: an empty base URL, an empty
\* model or a temperature that is not a finite number.
RejectedInput ==
  /\ Submitting
  /\ \/ rendered.step \in {"baseUrl", "defaultModel"} /\ Trim(submitted') = <<>>
     \/ /\ rendered.step = "temperature"
        /\ NumberOfText(Trim(submitted')) \in {"NaN", "Infinity", "-Infinity"}

\* The arguments of an onComplete call are the chosen scope, a non-empty
\* trimmed base URL, a non-empty trimmed model and a finite temperature.
WellFormedResult(r) ==
  /\ r.scope = dialogScope
  /\ r.baseUrl # <<>> /\ Trim(r.baseUrl) = r.baseUrl
  /\ r.defaultModel # <<>> /\ Trim(r.defaultModel) = r.defaultModel
  /\ r.temperature \notin {"NaN", "Infinity", "-Infinity"}

\* C32: the step only advances, one place at a time, in the order scope,
\* baseUrl, defaultModel, temperature; a rejected input sets the error and
\* leaves the step and the stored values unchanged; onComplete is called only
\* from the temperature step, with the chosen scope, a non-empty trimmed base
\* URL, a non-empty trimmed model and a finite temperature.
C32_DialogStepsAndResult ==
  [][/\ StepRank(dialogStep') \in {StepRank(dialogStep),
                                   StepRank(dialogStep) + 1}
     /\ RejectedInput =>
          /\ dialogError' # ""
          /\ dialogStep' = dialogStep
          /\ dialogScope' = dialogScope
          /\ dialogBaseUrl' = dialogBaseUrl
          /\ dialogDefaultModel' = dialogDefaultModel
          /\ dialogTemperature' = dialogTemperature
          /\ completions' = completions
     /\ completions' # completions =>
          /\ Submitting
          /\ dialogStep = "temperature"
          /\ Len(completions') = Len(completions) + 1
          /\ WellFormedResult(completions'[Len(completions')])]_vars

\* The dialog has completed once, from texts with surrounding blanks over
\* defaults that were empty, and has then rejected a temperature.
C32_Witness ==
  /\ Len(completions) = 1
  /\ completions[1] = [scope |-> "Workspace", baseUrl |-> <<"u">>,
                       defaultModel |-> <<"u">>, temperature |-> "0"]
  /\ dialogStep = "temperature"
  /\ dialogError = "Temperature must be a number."
  /\ submitted = <<"Infinity">>
  /\ nSubmits = MaxSubmits

====
